---- MODULE Spec2Model ----
(***************************************************************************)
(* HDLLoop: the HDL optimization pipeline (hdl_flow.py), the materializer  *)
(* of optimized files (OptimizedHdlWriter.py) and the event-streaming      *)
(* adapter (hdlagent.py), with the reasoning-suffix stream of              *)
(* app/modules/agent/matlab_agent.py.                                      *)
(*                                                                         *)
(* Text is a sequence of character tokens.  "F" is a code fence (three     *)
(* backticks with an optional recognised language tag), "H" is a filename  *)
(* header prefix (a "//" or "--" comment marker followed by "File:"), "N"  *)
(* is a newline, "S" a blank, "P" an opening parenthesis; every other      *)
(* token is an ordinary character.                                         *)
(***************************************************************************)
EXTENDS Integers, Sequences, FiniteSets, TLC

\* ------------------------------------------------------------------ bounds
MaxPaths == 2
MaxChunks == 3
MaxClock == 2
MaxCalls == 2
MaxLines == 2
MaxText == 4
MaxRegions == 3

\* ------------------------------------------------------------- text helpers
IsWs(c) == c \in {"S", "N"}

RECURSIVE LStrip(_)
LStrip(s) ==
  IF s = <<>> THEN <<>>
  ELSE IF IsWs(Head(s)) THEN LStrip(Tail(s)) ELSE s

RECURSIVE RStrip(_)
RStrip(s) ==
  IF s = <<>> THEN <<>>
  ELSE IF IsWs(s[Len(s)]) THEN RStrip(SubSeq(s, 1, Len(s) - 1)) ELSE s

Strip(s) == RStrip(LStrip(s))

IndexOf(s, c) ==
  IF \E i \in 1..Len(s) : s[i] = c
  THEN CHOOSE i \in 1..Len(s) : s[i] = c /\ \A j \in 1..(i - 1) : s[j] # c
  ELSE 0

LastIndexOf(s, c) ==
  IF \E i \in 1..Len(s) : s[i] = c
  THEN CHOOSE i \in 1..Len(s) : s[i] = c /\ \A j \in (i + 1)..Len(s) : s[j] # c
  ELSE 0

RECURSIVE SplitLines(_)
SplitLines(s) ==
  IF s = <<>> THEN <<>>
  ELSE LET i == IndexOf(s, "N")
       IN IF i = 0 THEN <<s>>
          ELSE <<SubSeq(s, 1, i - 1)>> \o SplitLines(SubSeq(s, i + 1, Len(s)))

RECURSIVE JoinLines(_)
JoinLines(lines) ==
  IF lines = <<>> THEN <<>>
  ELSE IF Len(lines) = 1 THEN lines[1]
  ELSE lines[1] \o <<"N">> \o JoinLines(Tail(lines))

RECURSIVE Concat(_)
Concat(ss) == IF ss = <<>> THEN <<>> ELSE Head(ss) \o Concat(Tail(ss))

SeqsUpTo(S, n) == UNION { [1..k -> S] : k \in 0..n }

\* ----------------------------------------------------------- the file system
ExistingPaths ==
  { [dir |-> <<"d1">>, name |-> <<"a", ".", "v">>],
    [dir |-> <<"d1">>, name |-> <<"b", ".", "v">>] }

MissingPaths == { [dir |-> <<"d1">>, name |-> <<"c", ".", "v">>] }

AllPaths == ExistingPaths \cup MissingPaths

(* Files that exist and hold bytes that are not valid UTF-8.               *)
UndecodablePaths == { [dir |-> <<"d1">>, name |-> <<"b", ".", "o">>] }

(* A readable file of another directory with the base name of an existing  *)
(* one.                                                                    *)
SameNamePaths == { [dir |-> <<"d2">>, name |-> <<"a", ".", "v">>] }

PathExists(p) == p \in ExistingPaths \cup UndecodablePaths \cup SameNamePaths

(* What src.read_text(encoding="utf-8") does: FileNotFoundError is an      *)
(* OSError, UnicodeDecodeError is a ValueError.                            *)
ReadOutcome(p) ==
  IF p \in UndecodablePaths THEN "UnicodeDecodeError"
  ELSE IF p \in ExistingPaths \cup SameNamePaths THEN "none"
  ELSE "OSError"

ReadText(p) == <<"o">> \o p.name

Stem(name) ==
  LET i == LastIndexOf(name, ".")
  IN IF i > 1 /\ i < Len(name) THEN SubSeq(name, 1, i - 1) ELSE name

\* ------------------------------------------------- the file-block extractor
RECURSIVE FenceBlocks(_)
FenceBlocks(text) ==
  LET i == IndexOf(text, "F")
  IN IF i = 0 THEN <<>>
     ELSE LET body == LStrip(SubSeq(text, i + 1, Len(text)))
              j == IndexOf(body, "F")
          IN IF j = 0 THEN <<>>
             ELSE <<SubSeq(body, 1, j - 1)>>
                    \o FenceBlocks(SubSeq(body, j + 1, Len(body)))

HeaderMatches(stripped) ==
  /\ stripped # <<>>
  /\ Head(stripped) = "H"
  /\ LStrip(Tail(stripped)) # <<>>

HeaderFileName(stripped) ==
  LET file_part == Strip(LStrip(Tail(stripped)))
      p == IndexOf(file_part, "P")
  IN IF p > 0 THEN Strip(SubSeq(file_part, 1, p - 1)) ELSE file_part

\* A region without a header line still names a file.
BlockFileNameDefault(lines) ==
  LET hs == {i \in 1..Len(lines) : HeaderMatches(Strip(lines[i]))}
  IN IF hs = {} THEN [found |-> TRUE, name |-> <<"o">>]
     ELSE [found |-> TRUE,
           name |-> HeaderFileName(Strip(lines[CHOOSE i \in hs : \A j \in hs : i <= j]))]

\* The last header line of a region names the file.
BlockFileNameLast(lines) ==
  LET hs == {i \in 1..Len(lines) : HeaderMatches(Strip(lines[i]))}
  IN IF hs = {} THEN [found |-> FALSE, name |-> <<>>]
     ELSE [found |-> TRUE,
           name |-> HeaderFileName(Strip(lines[CHOOSE i \in hs : \A j \in hs : i >= j]))]

RECURSIVE BlockFileName(_)
BlockFileName(lines) ==
  IF lines = <<>> THEN [found |-> FALSE, name |-> <<>>]
  ELSE IF HeaderMatches(Strip(Head(lines)))
       THEN [found |-> TRUE, name |-> HeaderFileName(Strip(Head(lines)))]
       ELSE BlockFileName(Tail(lines))

\* The header line is left out of the content.
BlockCodeBodyOnly(lines) ==
  Strip(JoinLines(SelectSeq(lines, LAMBDA l : ~HeaderMatches(Strip(l))))) \o <<"N">>

\* The joined lines are not trimmed.
BlockCodeUntrimmed(lines) == JoinLines(lines) \o <<"N">>

BlockCode(lines) == Strip(JoinLines(lines)) \o <<"N">>

\* On a key collision the first content is kept.
DictSetFirstWins(blocks, name, code) ==
  IF \E i \in 1..Len(blocks) : blocks[i].name = name
  THEN blocks
  ELSE Append(blocks, [name |-> name, code |-> code])

DictSet(blocks, name, code) ==
  IF \E i \in 1..Len(blocks) : blocks[i].name = name
  THEN [i \in 1..Len(blocks) |->
          IF blocks[i].name = name THEN [name |-> name, code |-> code]
          ELSE blocks[i]]
  ELSE Append(blocks, [name |-> name, code |-> code])

RECURSIVE ParseBlockList(_, _)
ParseBlockList(fenced, blocks) ==
  IF fenced = <<>> THEN blocks
  ELSE LET lines == SplitLines(Head(fenced))
           fn == BlockFileName(lines)
       IN ParseBlockList(Tail(fenced),
            IF fn.found /\ fn.name # <<>>
            THEN DictSet(blocks, fn.name, BlockCode(lines))
            ELSE blocks)

ParseFileBlocks(text) == ParseBlockList(FenceBlocks(text), <<>>)

\* ------------------------------------------- response payload normalization
(* A payload is [shape, str, parts]: shape "str" carries str, shape "list"  *)
(* carries parts, each part [type, text, summary].                         *)
TextPart(t) == [type |-> "text", text |-> t, summary |-> <<>>]

ReasoningPart(items) == [type |-> "reasoning", text |-> <<>>, summary |-> items]

ListPayload(parts) == [shape |-> "list", str |-> <<>>, parts |-> parts]

StrPayload(s) == [shape |-> "str", str |-> s, parts |-> <<>>]

RECURSIVE ReprText(_)
ReprText(s) ==
  IF s = <<>> THEN <<>>
  ELSE (IF Head(s) = "N" THEN <<"o", "o">> ELSE <<Head(s)>>) \o ReprText(Tail(s))

RECURSIVE ReprItems(_)
ReprItems(items) ==
  IF items = <<>> THEN <<>>
  ELSE <<"o">> \o ReprText(Head(items).text) \o <<"o">> \o ReprItems(Tail(items))

RECURSIVE ReprParts(_)
ReprParts(parts) ==
  IF parts = <<>> THEN <<>>
  ELSE <<"o">> \o ReprText(Head(parts).text) \o ReprItems(Head(parts).summary)
         \o <<"o">> \o ReprParts(Tail(parts))

StrOf(content) ==
  IF content.shape = "str" THEN content.str
  ELSE <<"o">> \o ReprParts(content.parts) \o <<"o">>

RECURSIVE TextParts(_)
TextParts(parts) ==
  IF parts = <<>> THEN <<>>
  ELSE (IF Head(parts).type \in {"text", "output_text"} /\ Head(parts).text # <<>>
        THEN <<Head(parts).text>> ELSE <<>>) \o TextParts(Tail(parts))

ExtractText(content) ==
  IF content.shape = "str" THEN content.str
  ELSE IF content.shape = "list" /\ TextParts(content.parts) # <<>>
       THEN Concat(TextParts(content.parts))
       ELSE StrOf(content)

\* ------------------------------------------------ the run-directory writer
OutputRoot == <<"out">>

IsAlnum(c) == c \in {"a", "b", "c", "o", "v"}

Sanitize(name) == [i \in 1..Len(name) |-> IF IsAlnum(name[i]) \/ name[i] = "_" THEN name[i] ELSE "_"]

(* The clock is read with a resolution of one second: ts is the second.    *)
Clock == 1..MaxClock

CreateRunDir(top_name, ts) ==
  OutputRoot \o Sanitize(top_name) \o <<"_optimized_", ToString(ts)>>

WriteFile(fs, name, text) ==
  [n \in DOMAIN fs \cup {name} |-> IF n = name THEN text ELSE fs[n]]

(* run_dir / filename, resolved as the file system resolves it on a write: *)
(* a name without a separator is a child of run_dir; an absolute name      *)
(* replaces run_dir; a leading .. names the parent, the output root.  A    *)
(* directory is written as its components, an absolute one without the     *)
(* leading separator.                                                      *)
DestPath(run_dir, filename) ==
  LET i == LastIndexOf(filename, "/")
      base == SubSeq(filename, i + 1, Len(filename))
  IN IF i = 0 THEN [dir |-> run_dir, name |-> filename]
     ELSE IF filename[1] = "/" THEN [dir |-> SubSeq(filename, 2, i - 1), name |-> base]
     ELSE IF SubSeq(filename, 1, i - 1) = <<".", ".">> THEN [dir |-> OutputRoot, name |-> base]
     ELSE [dir |-> run_dir \o <<"/">> \o SubSeq(filename, 1, i - 1), name |-> base]

(* The directories there are while the writer runs: the run directory and  *)
(* its parent, which _create_run_dir made, and those of the originals.     *)
DirExists(dir, run_dir) == dir \in {run_dir, OutputRoot, <<"d1">>, <<"d2">>}

InSeq(x, s) == \E i \in 1..Len(s) : s[i] = x

(* Only OSError is caught: the file is skipped.  Any other exception of    *)
(* the read leaves the loop and the writer; acc.error then names it.       *)
RECURSIVE CopyOriginalFiles(_, _, _)
CopyOriginalFiles(original_paths, run_dir, acc) ==
  IF original_paths = <<>> \/ acc.error # "none" THEN acc
  ELSE LET src == Head(original_paths)
           dest == [dir |-> run_dir, name |-> src.name]
       IN CopyOriginalFiles(Tail(original_paths), run_dir,
            IF ReadOutcome(src) = "none"
            THEN [files |-> WriteFile(acc.files, src.name, ReadText(src)),
                  results |-> Append(acc.results, dest),
                  writes |-> Append(acc.writes,
                              [name |-> src.name, from |-> "copy", dir |-> run_dir]),
                  error |-> "none"]
            ELSE IF ReadOutcome(src) = "OSError" THEN acc
            ELSE [acc EXCEPT !.error = ReadOutcome(src)])

\* Every written file is appended to the results, copied or not.
RECURSIVE WriteBlocksAppendAlways(_, _, _)
WriteBlocksAppendAlways(file_blocks, run_dir, acc) ==
  IF file_blocks = <<>> THEN acc
  ELSE LET b == Head(file_blocks)
           dest == [dir |-> run_dir, name |-> b.name]
       IN WriteBlocksAppendAlways(Tail(file_blocks), run_dir,
            [files |-> WriteFile(acc.files, b.name, b.code),
             results |-> Append(acc.results, dest),
             writes |-> Append(acc.writes,
                         [name |-> b.name, from |-> "model", dir |-> run_dir]),
             error |-> "none"])

(* dest.write_text raises FileNotFoundError when the directory of dest     *)
(* does not exist; nothing catches it.                                     *)
RECURSIVE WriteBlocks(_, _, _)
WriteBlocks(file_blocks, run_dir, acc) ==
  IF file_blocks = <<>> \/ acc.error # "none" THEN acc
  ELSE LET b == Head(file_blocks)
           dest == DestPath(run_dir, b.name)
       IN WriteBlocks(Tail(file_blocks), run_dir,
            IF ~DirExists(dest.dir, run_dir)
            THEN [acc EXCEPT !.error = "FileNotFoundError"]
            ELSE [files |-> IF dest.dir = run_dir
                            THEN WriteFile(acc.files, dest.name, b.code)
                            ELSE acc.files,
                  results |-> IF InSeq(dest, acc.results) THEN acc.results
                              ELSE Append(acc.results, dest),
                  writes |-> Append(acc.writes,
                              [name |-> dest.name, from |-> "model", dir |-> dest.dir]),
                  error |-> "none"])

NoFiles == [n \in {} |-> <<>>]

\* No blocks found: falls back to the copied originals instead of raising.
WriteFromAgentResponseFallback(agent_response, original_paths, top_name, now) ==
  LET run_dir == CreateRunDir(top_name, now)
      copied == CopyOriginalFiles(original_paths, run_dir,
                  [files |-> NoFiles, results |-> <<>>, writes |-> <<>>, error |-> "none"])
      file_blocks == ParseFileBlocks(ExtractText(agent_response.content))
      written == WriteBlocks(file_blocks, run_dir, copied)
  IN [raised |-> FALSE, error |-> "none", run_dir |-> run_dir, files |-> written.files,
      writes |-> written.writes, all_paths |-> written.results,
      changed_files |-> [i \in 1..Len(file_blocks) |-> file_blocks[i].name]]

(* The result of one invocation: raised tells whether it raised, error     *)
(* what: the exception that left the copy loop, or the "No optimized HDL   *)
(* file blocks found" ValueError; files and writes are the run directory   *)
(* and the writes made into it, whether or not it raised.                  *)
WriteFromAgentResponse(agent_response, original_paths, top_name, now) ==
  LET text == ExtractText(agent_response.content)
      run_dir == CreateRunDir(top_name, now)
      copied == CopyOriginalFiles(original_paths, run_dir,
                  [files |-> NoFiles, results |-> <<>>, writes |-> <<>>, error |-> "none"])
      file_blocks == ParseFileBlocks(text)
      changed_files == [i \in 1..Len(file_blocks) |-> file_blocks[i].name]
      written == WriteBlocks(file_blocks, run_dir, copied)
  IN IF copied.error # "none"
     THEN [raised |-> TRUE, error |-> copied.error, run_dir |-> run_dir,
           files |-> copied.files, writes |-> copied.writes, all_paths |-> <<>>,
           changed_files |-> <<>>]
     ELSE IF file_blocks = <<>>
     THEN [raised |-> TRUE, error |-> "ValueError", run_dir |-> run_dir,
           files |-> copied.files, writes |-> copied.writes, all_paths |-> <<>>,
           changed_files |-> <<>>]
     ELSE IF written.error # "none"
     THEN [raised |-> TRUE, error |-> written.error, run_dir |-> run_dir,
           files |-> written.files, writes |-> written.writes, all_paths |-> <<>>,
           changed_files |-> <<>>]
     ELSE [raised |-> FALSE, error |-> "none", run_dir |-> run_dir,
           files |-> written.files, writes |-> written.writes,
           all_paths |-> written.results, changed_files |-> changed_files]

\* --------------------------------------------- resource reports (interface)
(* An optional number is <<>> (None) or <<n>>.                              *)
Reports ==
  { [tool |-> "vivado", target |-> "xc7", lut |-> <<6528>>, dsp |-> <<>>, bram |-> <<3>>],
    [tool |-> "vivado", target |-> "unknown", lut |-> <<>>, dsp |-> <<>>, bram |-> <<>>] }

OptStr(x) == IF x = <<>> THEN "N/A" ELSE ToString(x[1])

ToHumanSummary(r) ==
  <<"Target", r.target, r.tool, "LUTs=", OptStr(r.lut), "DSPs=", OptStr(r.dsp),
    "BRAMs=", OptStr(r.bram)>>

ToDict(r) ==
  [tool |-> r.tool, target |-> r.target, lut |-> r.lut, dsp |-> r.dsp, bram |-> r.bram]

CompileResults == { [ok |-> TRUE, errors |-> <<>>] }

(* What a compile collaborator other than the stub may return: the result  *)
(* class allows a failure, with or without an error text.                  *)
CompileOutcomes ==
  CompileResults \cup { [ok |-> FALSE, errors |-> <<"e">>], [ok |-> FALSE, errors |-> <<>>] }

\* --------------------------------------------------- the adapter's helpers
Event(kind, text, src) == [kind |-> kind, text |-> text, src |-> src]

\* The agent stage is missing from the start-announcement set.
StageNamesNoAgent ==
  {"resource_init", "apply_optimized_hdl", "compile_check", "resource_final"}

StageNames ==
  {"resource_init", "agent", "apply_optimized_hdl", "compile_check", "resource_final"}

\* compile_check is missing from the end-summary set.
EndStageNamesNoCompile == {"resource_init", "apply_optimized_hdl", "resource_final"}

EndStageNames ==
  {"resource_init", "apply_optimized_hdl", "compile_check", "resource_final"}

\* The announcement goes out as user-facing text.
NodeStartThinkingAsText(name) ==
  IF name \in {"resource_init", "agent", "apply_optimized_hdl", "compile_check",
               "resource_final"}
  THEN <<Event("text", <<"->", name>>, "start")>>
  ELSE <<>>

NodeStartThinking(name) ==
  IF name \in {"resource_init", "agent", "apply_optimized_hdl", "compile_check",
               "resource_final"}
  THEN <<Event("think", <<"->", name>>, "start")>>
  ELSE <<>>

FormatResourceReportLine(report, prefix, top_name) ==
  LET parts == (IF report.lut # <<>> THEN <<"LUTs=", ToString(report.lut[1])>> ELSE <<>>)
               \o (IF report.dsp # <<>> THEN <<"DSPs=", ToString(report.dsp[1])>> ELSE <<>>)
               \o (IF report.bram # <<>> THEN <<"BRAMs=", ToString(report.bram[1])>> ELSE <<>>)
  IN <<"[ResourceUtilization]", prefix>> \o top_name \o <<report.tool, report.target>>
       \o (IF parts # <<>> THEN parts ELSE <<"no resource data available">>)

Get(output, key, default) == IF key \in DOMAIN output THEN output[key] ELSE default

NodeEndMessages(name, output) ==
  IF name = "resource_init"
  THEN IF "resource_report" \in DOMAIN output
       THEN <<Event("think",
                FormatResourceReportLine(output.resource_report, "Initial utilization",
                                         Get(output, "top_name", <<>>)), "end")>>
       ELSE IF Get(output, "base_summary", <<>>) # <<>>
            THEN <<Event("think", <<"[ResourceUtilization]", "Initial utilization">>
                           \o Get(output, "top_name", <<>>) \o output.base_summary, "end")>>
            ELSE <<>>
  ELSE IF name = "apply_optimized_hdl"
  THEN IF Get(output, "optimized_files", <<>>) # <<>>
       THEN <<Event("think", <<"[HDL Files]", "Wrote optimized HDL for">>
                      \o Concat(output.optimized_files), "end")>>
       ELSE <<Event("think", <<"[HDL Files]", "No explicit optimized files detected">>, "end")>>
  ELSE IF name = "compile_check"
  THEN IF Get(output, "compile_ok", TRUE)
       THEN <<Event("think", <<"[CompileCheck]", "No compilation errors detected">>, "end")>>
       ELSE <<Event("think", <<"[CompileCheck]", "Compilation errors detected">>
                      \o Get(output, "compile_errors", <<>>), "end")>>
  ELSE IF name = "resource_final"
  THEN (IF "resource_report" \in DOMAIN output
        THEN <<Event("think",
                 FormatResourceReportLine(output.resource_report, "Final utilization",
                                          Get(output, "top_name", <<>>)), "end")>>
        ELSE IF Get(output, "final_summary", <<>>) # <<>>
             THEN <<Event("think", <<"[ResourceUtilization]", "Final utilization">>
                            \o Get(output, "top_name", <<>>) \o output.final_summary, "end")>>
             ELSE <<>>)
       \o (IF Get(output, "summary_text", <<>>) # <<>>
           THEN <<Event("text", output.summary_text, "summary")>>
           ELSE <<>>)
  ELSE <<>>

\* ------------------------------------------------------ model stream chunks
(* A summary item is [index, text, hasText]; a chunk is its content payload. *)
Item(i, t) == [index |-> i, text |-> t, hasText |-> TRUE]

ParagraphBreak == <<"N", "N">>

\* An index equal to the tracked one counts as an advance.
IndexAdvancesOrEqual(idx, current_idx) == idx >= current_idx

IndexAdvances(idx, current_idx) == idx > current_idx

RECURSIVE ProcessSummary(_, _)
ProcessSummary(summary, acc) ==
  IF summary = <<>> THEN acc
  ELSE LET item == Head(summary)
       IN ProcessSummary(Tail(summary),
            IF ~item.hasText THEN acc
            ELSE IF IndexAdvances(item.index, acc.idx)
                 THEN [events |-> acc.events \o <<Event("think", ParagraphBreak, "break"),
                                                  Event("think", item.text, "reasoning")>>,
                       idx |-> item.index]
                 ELSE [events |-> Append(acc.events, Event("think", item.text, "reasoning")),
                       idx |-> acc.idx])

RECURSIVE ProcessParts(_, _)
ProcessParts(parts, acc) ==
  IF parts = <<>> THEN acc
  ELSE LET part == Head(parts)
       IN ProcessParts(Tail(parts),
            IF part.type = "reasoning" THEN ProcessSummary(part.summary, acc)
            ELSE IF part.type = "text" /\ part.text # <<>>
                 THEN [events |-> Append(acc.events, Event("text", part.text, "answer")),
                       idx |-> acc.idx]
                 ELSE acc)

ProcessLlmChunk(content, current_idx) ==
  IF content.shape = "list"
  THEN ProcessParts(content.parts, [events |-> <<>>, idx |-> current_idx])
  ELSE IF content.shape = "str" /\ content.str # <<>>
       THEN [events |-> <<Event("text", content.str, "answer")>>, idx |-> current_idx]
       ELSE [events |-> <<>>, idx |-> current_idx]

\* -------------------------------------------------------- prompts, messages
Query == <<"q">>

SystemPromptText == <<"sys">>

ChatHistories == { <<>>, <<[role |-> "human", content |-> <<"h">>]>> }

Msg(role, content) == [role |-> role, content |-> content]

RECURSIVE JoinPaths(_)
JoinPaths(paths) ==
  IF paths = <<>> THEN <<>>
  ELSE IF Len(paths) = 1 THEN paths[1].dir \o <<"/">> \o paths[1].name
  ELSE paths[1].dir \o <<"/">> \o paths[1].name \o <<"N">> \o JoinPaths(Tail(paths))

BuildNoFilesMessages(query, history) ==
  <<Msg("system", <<"need files">>)>> \o history
    \o <<Msg("human", <<"No HDL files are attached">> \o query)>>

BuildMissingPathsMessages(query, history, paths) ==
  <<Msg("system", <<"paths invalid">>)>> \o history
    \o <<Msg("human", <<"paths do not exist">> \o JoinPaths(paths) \o query)>>

\* A file that cannot be read gets no section.
RECURSIVE BuildHdlBundleSkipUnreadable(_)
BuildHdlBundleSkipUnreadable(hdl_paths) ==
  LET readable == SelectSeq(hdl_paths, LAMBDA q : ReadOutcome(q) = "none")
  IN IF readable = <<>> THEN <<>>
     ELSE LET p == Head(readable)
              part == <<"H", "S">> \o p.name \o <<"N">> \o ReadText(p) \o <<"N">>
          IN IF Len(readable) = 1 THEN part
             ELSE part \o <<"N", "N">> \o BuildHdlBundleSkipUnreadable(Tail(readable))

(* Any exception of the read is caught: the section is then the marker     *)
(* line alone, with the failure noted in it.                               *)
RECURSIVE BuildHdlBundle(_)
BuildHdlBundle(hdl_paths) ==
  IF hdl_paths = <<>> THEN <<>>
  ELSE LET p == Head(hdl_paths)
           part == IF ReadOutcome(p) = "none"
                   THEN <<"H", "S">> \o p.name \o <<"N">> \o ReadText(p) \o <<"N">>
                   ELSE <<"H", "S">> \o p.name
                          \o <<"S", "P", "FAILED TO READ", ReadOutcome(p), "N">>
       IN IF Len(hdl_paths) = 1 THEN part
          ELSE part \o <<"N", "N">> \o BuildHdlBundle(Tail(hdl_paths))

FormatDesignPrompt(query, top_name, base_summary, hdl_bundle) ==
  <<"o">> \o top_name \o <<"N">> \o base_summary \o <<"N", "F", "N">>
    \o hdl_bundle \o <<"N", "F", "N">> \o query

\* ------------------------------------------------------ the pipeline stages
\* The graph is entered at the agent stage.
EntryPointAgent == "agent"

EntryPoint == "resource_init"

\* apply_optimized_hdl is wired straight to resource_final.
EdgeSkipsCompile(n) ==
  CASE n = "resource_init" -> "agent"
    [] n = "agent" -> "apply_optimized_hdl"
    [] n = "apply_optimized_hdl" -> "resource_final"
    [] n = "compile_check" -> "resource_final"
    [] n = "resource_final" -> "END"

\* agent is wired straight to compile_check.
EdgeSkipsApply(n) ==
  CASE n = "resource_init" -> "agent"
    [] n = "agent" -> "compile_check"
    [] n = "apply_optimized_hdl" -> "compile_check"
    [] n = "compile_check" -> "resource_final"
    [] n = "resource_final" -> "END"

Edge(n) ==
  CASE n = "resource_init" -> "agent"
    [] n = "agent" -> "apply_optimized_hdl"
    [] n = "apply_optimized_hdl" -> "compile_check"
    [] n = "compile_check" -> "resource_final"
    [] n = "resource_final" -> "END"

\* The update replaces the state.
MergeReplace(st, update) == update

Merge(st, update) ==
  [k \in DOMAIN st \cup DOMAIN update |-> IF k \in DOMAIN update THEN update[k] ELSE st[k]]

EmptyState == [k \in {} |-> <<>>]

ResourceInitUpdate(st, base_report) ==
  LET path_objs == st.hdl_paths
      top_name == Stem(path_objs[1].name)
      hdl_bundle == BuildHdlBundle(path_objs)
      base_summary == ToHumanSummary(base_report)
      human_input == FormatDesignPrompt(st.query, top_name, base_summary, hdl_bundle)
  IN [top_name |-> top_name,
      hdl_bundle |-> hdl_bundle,
      base_summary |-> base_summary,
      messages |-> <<Msg("system", st.system_prompt)>> \o st.chat_history
                     \o <<Msg("human", human_input)>>,
      resource_report |-> ToDict(base_report)]

\* The optimized paths are ignored.
SelectOriginalPaths(st) == st.hdl_paths

SelectPathsForDownstream(st) ==
  IF "optimized_hdl_paths" \in DOMAIN st THEN st.optimized_hdl_paths ELSE st.hdl_paths

ResourceFinalUpdate(st, final_report) ==
  LET final_summary == ToHumanSummary(final_report)
  IN [final_summary |-> final_summary,
      summary_text |-> <<"Before optimization">> \o st.base_summary
                         \o <<"After optimization">> \o final_summary,
      top_name |-> st.top_name,
      resource_report |-> ToDict(final_report)]

\* The existence filter is left out.
ExistingOfNoFilter(paths) == paths

RECURSIVE ExistingOf(_)
ExistingOf(paths) ==
  IF paths = <<>> THEN <<>>
  ELSE (IF PathExists(Head(paths)) THEN <<Head(paths)>> ELSE <<>>) \o ExistingOf(Tail(paths))

\* ------------------------------------------------------------------- state
VARIABLES
  file_paths,          \* the caller's argument: [isNone, list]
  chat_history,        \* the caller's prior turns
  pc,                  \* "start", "llm", "graph", "done", "error"
  flow,                \* the flow astream_run selected
  node,                \* the pipeline stage the graph is at
  phase,               \* "pending", "started", "calling", "returned", "raised"
  state,               \* the pipeline's shared state record
  output,              \* the update the current stage returned
  out,                 \* the events yielded to the caller
  current_thought_idx, \* the reasoning index tracked by the stream loop
  stream,              \* the parts of the model response received so far
  nchunks,             \* chunks received in the current model call
  llm_requests,        \* requests sent to the model
  calls,               \* calls made to the collaborators
  log,                 \* what the graph did, in order
  rundir,              \* the files of the run directory
  writes               \* the writes made into the run directory

vars ==
  <<file_paths, chat_history, pc, flow, node, phase, state, output, out,
    current_thought_idx, stream, nchunks, llm_requests, calls, log, rundir, writes>>

Chunks ==
  { ListPayload(<<ReasoningPart(<<Item(0, <<"x">>)>>)>>),
    ListPayload(<<ReasoningPart(<<Item(1, <<"y">>)>>)>>),
    ListPayload(<<TextPart(<<"F", "H", "S", "a", ".", "v", "S", "P", "N", "o">>)>>),
    ListPayload(<<TextPart(<<"F", "H", "c", ".", "v", "N">>)>>),
    ListPayload(<<TextPart(<<"F">>)>>),
    ListPayload(<<TextPart(<<"o">>)>>) }

\* The events of one step are yielded last first.
TagReversed(events, n) ==
  [i \in 1..Len(events) |->
     [kind |-> events[Len(events) + 1 - i].kind, text |-> events[Len(events) + 1 - i].text,
      src |-> events[Len(events) + 1 - i].src, node |-> n, at |-> Len(log)]]

Tag(events, n) ==
  [i \in 1..Len(events) |->
     [kind |-> events[i].kind, text |-> events[i].text, src |-> events[i].src,
      node |-> n, at |-> Len(log)]]

Init ==
  /\ file_paths \in {[isNone |-> TRUE, list |-> <<>>]}
                      \cup {[isNone |-> FALSE, list |-> l] : l \in SeqsUpTo(AllPaths, MaxPaths)}
  /\ chat_history \in ChatHistories
  /\ pc = "start"
  /\ flow = "none"
  /\ node = "none"
  /\ phase = "none"
  /\ state = EmptyState
  /\ output = EmptyState
  /\ out = <<>>
  /\ current_thought_idx = 0
  /\ stream = <<>>
  /\ nchunks = 0
  /\ llm_requests = <<>>
  /\ calls = <<>>
  /\ log = <<>>
  /\ rundir = NoFiles
  /\ writes = <<>>

\* ----------------------------------------------------------- flow selection
\* Only None counts as "no files"; an empty list does not.
FalsyNoneOnly(fp) == fp.isNone

Falsy(fp) == fp.isNone \/ fp.list = <<>>

RunNoFilesFlow ==
  /\ pc = "start"
  /\ Falsy(file_paths)
  /\ pc' = "llm"
  /\ flow' = "hdl_no_files"
  /\ llm_requests' = Append(llm_requests,
       [flow |-> "hdl_no_files", messages |-> BuildNoFilesMessages(Query, chat_history)])
  /\ UNCHANGED <<file_paths, chat_history, node, phase, state, output, out,
                 current_thought_idx, stream, nchunks, calls, log, rundir, writes>>

RunMissingFilesFlow ==
  /\ pc = "start"
  /\ ~Falsy(file_paths)
  /\ ExistingOf(file_paths.list) = <<>>
  /\ pc' = "llm"
  /\ flow' = "hdl_missing_files"
  /\ llm_requests' = Append(llm_requests,
       [flow |-> "hdl_missing_files",
        messages |-> BuildMissingPathsMessages(Query, chat_history, file_paths.list)])
  /\ UNCHANGED <<file_paths, chat_history, node, phase, state, output, out,
                 current_thought_idx, stream, nchunks, calls, log, rundir, writes>>

RunFullGraphFlow ==
  /\ pc = "start"
  /\ ~Falsy(file_paths)
  /\ ExistingOf(file_paths.list) # <<>>
  /\ pc' = "graph"
  /\ flow' = "hdl_full_optimization_graph"
  /\ state' = [hdl_paths |-> ExistingOf(file_paths.list),
               query |-> Query,
               chat_history |-> chat_history,
               system_prompt |-> SystemPromptText]
  /\ node' = EntryPoint
  /\ phase' = "pending"
  /\ UNCHANGED <<file_paths, chat_history, output, out, current_thought_idx, stream,
                 nchunks, llm_requests, calls, log, rundir, writes>>

\* ------------------------------------------------- the short-circuit stream
StreamLlm(chunks) ==
  /\ pc = "llm"
  /\ nchunks < MaxChunks
  /\ \E chunk \in chunks :
       LET r == ProcessLlmChunk(chunk, current_thought_idx)
       IN /\ out' = out \o Tag(r.events, "none")
          /\ current_thought_idx' = r.idx
          /\ stream' = stream \o chunk.parts
  /\ nchunks' = nchunks + 1
  /\ UNCHANGED <<file_paths, chat_history, pc, flow, node, phase, state, output,
                 llm_requests, calls, log, rundir, writes>>

StreamLlmChunk == StreamLlm(Chunks)

StreamLlmEnd ==
  /\ pc = "llm"
  /\ pc' = "done"
  /\ UNCHANGED <<file_paths, chat_history, flow, node, phase, state, output, out,
                 current_thought_idx, stream, nchunks, llm_requests, calls, log,
                 rundir, writes>>

\* ------------------------------------------------------- the pipeline graph
LogEntry(ev, n) == [ev |-> ev, node |-> n]

NodeStart ==
  /\ pc = "graph"
  /\ phase = "pending"
  /\ phase' = "started"
  /\ log' = Append(log, LogEntry("start", node))
  /\ out' = out \o Tag(IF node \in StageNames THEN NodeStartThinking(node) ELSE <<>>, node)
  /\ UNCHANGED <<file_paths, chat_history, pc, flow, node, state, output,
                 current_thought_idx, stream, nchunks, llm_requests, calls, rundir, writes>>

\* The stage calls the collaborator without looking at hdl_paths.
ResourceInitCallNoCheck ==
  /\ pc = "graph"
  /\ node = "resource_init"
  /\ phase = "started"
  /\ phase' = "calling"
  /\ log' = Append(log, LogEntry("call", node))
  /\ calls' = Append(calls, [tool |-> "resource_runner", node |-> node,
                             files |-> state.hdl_paths, top_name |-> <<>>])
  /\ UNCHANGED <<file_paths, chat_history, pc, flow, node, state, output, out,
                 current_thought_idx, stream, nchunks, llm_requests, rundir, writes>>

ResourceInitCall ==
  /\ pc = "graph"
  /\ node = "resource_init"
  /\ phase = "started"
  /\ IF state.hdl_paths = <<>>
     THEN /\ phase' = "raised"
          /\ pc' = "error"
          /\ log' = Append(log, LogEntry("raise", node))
          /\ calls' = calls
     ELSE /\ phase' = "calling"
          /\ pc' = pc
          /\ log' = Append(log, LogEntry("call", node))
          /\ calls' = Append(calls, [tool |-> "resource_runner", node |-> node,
                                     files |-> state.hdl_paths,
                                     top_name |-> Stem(state.hdl_paths[1].name)])
  /\ UNCHANGED <<file_paths, chat_history, flow, node, state, output, out,
                 current_thought_idx, stream, nchunks, llm_requests, rundir, writes>>

ResourceInitReturn ==
  /\ pc = "graph"
  /\ node = "resource_init"
  /\ phase = "calling"
  /\ \E base_report \in Reports :
       /\ output' = ResourceInitUpdate(state, base_report)
       /\ state' = Merge(state, output')
  /\ phase' = "returned"
  /\ log' = log \o <<LogEntry("ret", node), LogEntry("return", node)>>
  /\ UNCHANGED <<file_paths, chat_history, pc, flow, node, out, current_thought_idx,
                 stream, nchunks, llm_requests, calls, rundir, writes>>

CollaboratorRaise ==
  /\ pc = "graph"
  /\ node \in {"resource_init", "resource_final"}
  /\ phase = "calling"
  /\ phase' = "raised"
  /\ pc' = "error"
  /\ log' = Append(log, LogEntry("raise", node))
  /\ UNCHANGED <<file_paths, chat_history, flow, node, state, output, out,
                 current_thought_idx, stream, nchunks, llm_requests, calls, rundir, writes>>

AgentCall ==
  /\ pc = "graph"
  /\ node = "agent"
  /\ phase = "started"
  /\ phase' = "calling"
  /\ llm_requests' = Append(llm_requests, [flow |-> "agent", messages |-> state.messages])
  /\ stream' = <<>>
  /\ nchunks' = 0
  /\ log' = Append(log, LogEntry("call", node))
  /\ UNCHANGED <<file_paths, chat_history, pc, flow, node, state, output, out,
                 current_thought_idx, calls, rundir, writes>>

AgentChunk ==
  /\ pc = "graph"
  /\ node = "agent"
  /\ phase = "calling"
  /\ nchunks < MaxChunks
  /\ \E chunk \in Chunks :
       LET r == ProcessLlmChunk(chunk, current_thought_idx)
       IN /\ out' = out \o Tag(r.events, node)
          /\ current_thought_idx' = r.idx
          /\ stream' = stream \o chunk.parts
  /\ nchunks' = nchunks + 1
  /\ UNCHANGED <<file_paths, chat_history, pc, flow, node, phase, state, output,
                 llm_requests, calls, log, rundir, writes>>

AgentReturn ==
  /\ pc = "graph"
  /\ node = "agent"
  /\ phase = "calling"
  /\ output' = [agent_response |-> [content |-> ListPayload(stream)]]
  /\ state' = Merge(state, output')
  /\ phase' = "returned"
  /\ log' = log \o <<LogEntry("ret", node), LogEntry("return", node)>>
  /\ UNCHANGED <<file_paths, chat_history, pc, flow, node, out, current_thought_idx,
                 stream, nchunks, llm_requests, calls, rundir, writes>>

ApplyOptimizedHdl ==
  /\ pc = "graph"
  /\ node = "apply_optimized_hdl"
  /\ phase = "started"
  /\ IF state.hdl_paths = <<>>
     THEN /\ phase' = "raised"
          /\ pc' = "error"
          /\ log' = Append(log, LogEntry("raise", node))
          /\ UNCHANGED <<state, output, rundir, writes>>
     ELSE \E now \in Clock :
          LET result == WriteFromAgentResponse(state.agent_response, state.hdl_paths,
                                               state.top_name, now)
          IN /\ rundir' = result.files
             /\ writes' = writes \o result.writes
             /\ IF result.raised
                THEN /\ phase' = "raised"
                     /\ pc' = "error"
                     /\ log' = Append(log, LogEntry("raise", node))
                     /\ UNCHANGED <<state, output>>
                ELSE /\ phase' = "returned"
                     /\ pc' = pc
                     /\ log' = Append(log, LogEntry("return", node))
                     /\ output' = [optimized_hdl_paths |-> result.all_paths,
                                   optimized_files |-> result.changed_files]
                     /\ state' = Merge(state, output')
  /\ UNCHANGED <<file_paths, chat_history, flow, node, out, current_thought_idx,
                 stream, nchunks, llm_requests, calls>>

DownstreamCall ==
  /\ pc = "graph"
  /\ node \in {"compile_check", "resource_final"}
  /\ phase = "started"
  /\ IF SelectPathsForDownstream(state) = <<>>
     THEN /\ phase' = "raised"
          /\ pc' = "error"
          /\ log' = Append(log, LogEntry("raise", node))
          /\ calls' = calls
     ELSE /\ phase' = "calling"
          /\ pc' = pc
          /\ log' = Append(log, LogEntry("call", node))
          /\ calls' = Append(calls,
               [tool |-> IF node = "compile_check" THEN "compile_runner"
                         ELSE "resource_runner",
                node |-> node,
                files |-> SelectPathsForDownstream(state),
                top_name |-> state.top_name])
  /\ UNCHANGED <<file_paths, chat_history, flow, node, state, output, out,
                 current_thought_idx, stream, nchunks, llm_requests, rundir, writes>>

\* A failed compile check makes the stage raise.
CompileCheckReturnGated(results) ==
  /\ pc = "graph"
  /\ node = "compile_check"
  /\ phase = "calling"
  /\ \E result \in results :
       /\ output' = [compile_ok |-> result.ok, compile_errors |-> result.errors]
       /\ state' = Merge(state, output')
       /\ IF result.ok
          THEN /\ phase' = "returned"
               /\ pc' = pc
               /\ log' = log \o <<LogEntry("ret", node), LogEntry("return", node)>>
          ELSE /\ phase' = "raised"
               /\ pc' = "error"
               /\ log' = log \o <<LogEntry("ret", node), LogEntry("raise", node)>>
  /\ UNCHANGED <<file_paths, chat_history, flow, node, out, current_thought_idx,
                 stream, nchunks, llm_requests, calls, rundir, writes>>

CompileCheckReturnOf(results) ==
  /\ pc = "graph"
  /\ node = "compile_check"
  /\ phase = "calling"
  /\ \E result \in results :
       /\ output' = [compile_ok |-> result.ok, compile_errors |-> result.errors]
       /\ state' = Merge(state, output')
  /\ phase' = "returned"
  /\ log' = log \o <<LogEntry("ret", node), LogEntry("return", node)>>
  /\ UNCHANGED <<file_paths, chat_history, pc, flow, node, out, current_thought_idx,
                 stream, nchunks, llm_requests, calls, rundir, writes>>

CompileCheckReturn == CompileCheckReturnOf(CompileResults)

ResourceFinalReturn ==
  /\ pc = "graph"
  /\ node = "resource_final"
  /\ phase = "calling"
  /\ \E final_report \in Reports :
       /\ output' = ResourceFinalUpdate(state, final_report)
       /\ state' = Merge(state, output')
  /\ phase' = "returned"
  /\ log' = log \o <<LogEntry("ret", node), LogEntry("return", node)>>
  /\ UNCHANGED <<file_paths, chat_history, pc, flow, node, out, current_thought_idx,
                 stream, nchunks, llm_requests, calls, rundir, writes>>

NodeEnd ==
  /\ pc = "graph"
  /\ phase = "returned"
  /\ log' = Append(log, LogEntry("end", node))
  /\ out' = out \o Tag(IF node \in EndStageNames THEN NodeEndMessages(node, output)
                       ELSE <<>>, node)
  /\ node' = Edge(node)
  /\ IF Edge(node) = "END"
     THEN /\ pc' = "done"
          /\ phase' = "none"
     ELSE /\ pc' = pc
          /\ phase' = "pending"
  /\ UNCHANGED <<file_paths, chat_history, flow, state, output, current_thought_idx,
                 stream, nchunks, llm_requests, calls, rundir, writes>>

Next ==
  \/ RunNoFilesFlow
  \/ RunMissingFilesFlow
  \/ RunFullGraphFlow
  \/ StreamLlmChunk
  \/ StreamLlmEnd
  \/ NodeStart
  \/ ResourceInitCall
  \/ ResourceInitReturn
  \/ CollaboratorRaise
  \/ AgentCall
  \/ AgentChunk
  \/ AgentReturn
  \/ ApplyOptimizedHdl
  \/ DownstreamCall
  \/ CompileCheckReturn
  \/ ResourceFinalReturn
  \/ NodeEnd

Spec == Init /\ [][Next]_vars

\* ------------------------------------ the model stream, all chunk shapes
(* The short-circuit flow with every shape of chunk the stream loop         *)
(* handles: reasoning summaries whose text grows at one index, several     *)
(* items in one summary, items without text, plain-string content, text    *)
(* parts and parts of another type.                                        *)
WideChunks ==
  { ListPayload(<<ReasoningPart(<<Item(0, <<"x">>)>>)>>),
    ListPayload(<<ReasoningPart(<<Item(0, <<"x", "y">>)>>)>>),
    ListPayload(<<ReasoningPart(<<Item(1, <<"y">>)>>)>>),
    ListPayload(<<ReasoningPart(<<Item(1, <<"y", "x">>)>>)>>),
    ListPayload(<<ReasoningPart(<<Item(2, <<"x">>)>>)>>),
    ListPayload(<<ReasoningPart(<<Item(0, <<"x">>), Item(1, <<"y">>)>>)>>),
    ListPayload(<<ReasoningPart(<<[index |-> 2, text |-> <<>>, hasText |-> FALSE]>>)>>),
    ListPayload(<<ReasoningPart(<<Item(1, <<"y">>)>>), TextPart(<<"o">>)>>),
    ListPayload(<<TextPart(<<>>)>>),
    ListPayload(<<[type |-> "refusal", text |-> <<"o">>, summary |-> <<>>]>>),
    StrPayload(<<"o">>),
    StrPayload(<<>>) }

StreamLlmChunkWide == StreamLlm(WideChunks)

InitStream ==
  /\ Init
  /\ file_paths.isNone
  /\ chat_history = <<>>

NextStream ==
  \/ RunNoFilesFlow
  \/ StreamLlmChunkWide
  \/ StreamLlmEnd

SpecStream == InitStream /\ [][NextStream]_vars

\* ------------------- the reasoning stream of app/modules/agent/matlab_agent
RECURSIVE CommonPrefixLen(_, _)
CommonPrefixLen(prev, text) ==
  IF prev = <<>> \/ text = <<>> \/ Head(prev) # Head(text) THEN 0
  ELSE 1 + CommonPrefixLen(Tail(prev), Tail(text))

(* acc is [cache, events]: cache maps each summary index seen to its last  *)
(* text, events are the ("think", new_part) pairs yielded.                 *)
RECURSIVE SuffixStream(_, _)
SuffixStream(summary, acc) ==
  IF summary = <<>> THEN acc
  ELSE LET item == Head(summary)
           text == IF item.hasText THEN item.text ELSE <<>>
           prev == IF item.index \in DOMAIN acc.cache THEN acc.cache[item.index] ELSE <<>>
           new_part == SubSeq(text, CommonPrefixLen(prev, text) + 1, Len(text))
       IN SuffixStream(Tail(summary),
            IF text = <<>> THEN acc
            ELSE [cache |-> [i \in DOMAIN acc.cache \cup {item.index} |->
                               IF i = item.index THEN text ELSE acc.cache[i]],
                  events |-> IF new_part # <<>>
                             THEN Append(acc.events, Event("think", new_part, "reasoning"))
                             ELSE acc.events])

\* ----------------------------- the pipeline, started on a given path list
(* _run_full_graph_flow called with hdl_paths as given, the empty list     *)
(* included: the existence filter of astream_run is not in the way.        *)
GraphPathLists == { <<>>, <<[dir |-> <<"d1">>, name |-> <<"a", ".", "v">>]>> }

RunFullGraphFlowWith ==
  /\ pc = "start"
  /\ \E hdl_paths \in GraphPathLists :
       state' = [hdl_paths |-> hdl_paths,
                 query |-> Query,
                 chat_history |-> chat_history,
                 system_prompt |-> SystemPromptText]
  /\ pc' = "graph"
  /\ flow' = "hdl_full_optimization_graph"
  /\ node' = EntryPoint
  /\ phase' = "pending"
  /\ UNCHANGED <<file_paths, chat_history, output, out, current_thought_idx, stream,
                 nchunks, llm_requests, calls, log, rundir, writes>>

InitGraph ==
  /\ Init
  /\ file_paths.isNone
  /\ chat_history = <<>>

NextGraph ==
  \/ RunFullGraphFlowWith
  \/ NodeStart
  \/ ResourceInitCall
  \/ ResourceInitReturn
  \/ CollaboratorRaise
  \/ AgentCall
  \/ AgentChunk
  \/ AgentReturn
  \/ ApplyOptimizedHdl
  \/ DownstreamCall
  \/ CompileCheckReturn
  \/ ResourceFinalReturn
  \/ NodeEnd

SpecGraph == InitGraph /\ [][NextGraph]_vars

\* ------------------------------------- the writer, invoked on its own
(* write_from_agent_response called directly: the responses are one block  *)
(* for an original file with an "(UPDATED)" annotation, no block at all,   *)
(* one block for a new file, and two blocks in either order.               *)
UpdatedBlock ==
  <<"F", "N", "H", "S", "a", ".", "v", "S", "P", "N", "o", "N", "F">>

NewFileBlock == <<"F", "N", "H", "S", "c", ".", "v", "N", "b", "N", "F">>

WriterTexts ==
  { UpdatedBlock,
    <<"o">>,
    NewFileBlock,
    UpdatedBlock \o <<"N">> \o NewFileBlock,
    NewFileBlock \o <<"N">> \o UpdatedBlock }

TopNames == { <<"a">>, <<"b">> }

WriterCalls == SelectSeq(calls, LAMBDA c : c.tool = "hdl_writer")

LastTs == IF calls = <<>> THEN 1 ELSE calls[Len(calls)].ts

(* One invocation: the run directory is created if it does not exist yet   *)
(* (mkdir with exist_ok), so the files of an earlier invocation that got   *)
(* the same directory stay in it.                                          *)
WriterInvoke(paths, texts, limit) ==
  /\ pc = "start"
  /\ Len(calls) < limit
  /\ \E original_paths \in paths, text \in texts, top_name \in TopNames, now \in Clock :
       LET result == WriteFromAgentResponse([content |-> StrPayload(text)],
                                            original_paths, top_name, now)
           exists == \E k \in 1..Len(calls) :
                       calls[k].tool = "hdl_writer" /\ calls[k].run_dir = result.run_dir
       IN /\ now >= LastTs
          /\ rundir' = IF exists THEN Merge(rundir, result.files) ELSE result.files
          /\ writes' = writes \o result.writes
          /\ calls' = Append(calls,
               [tool |-> "hdl_writer", original_paths |-> original_paths, text |-> text,
                top_name |-> top_name, ts |-> now, run_dir |-> result.run_dir,
                existed |-> exists, raised |-> result.raised, error |-> result.error,
                all_paths |-> result.all_paths, changed_files |-> result.changed_files])
  /\ UNCHANGED <<file_paths, chat_history, pc, flow, node, phase, state, output, out,
                 current_thought_idx, stream, nchunks, llm_requests, log>>

WriterInvokeOnce == WriterInvoke(SeqsUpTo(ExistingPaths, MaxPaths), WriterTexts, 1)

InitWriter ==
  /\ Init
  /\ file_paths.isNone
  /\ chat_history = <<>>

SpecWriter == InitWriter /\ [][WriterInvokeOnce]_vars

(* The same, on original paths that are missing or cannot be decoded.      *)
CopyPaths == ExistingPaths \cup MissingPaths \cup UndecodablePaths

WriterInvokeUnreadable ==
  WriterInvoke(SeqsUpTo(CopyPaths, MaxPaths), {UpdatedBlock, NewFileBlock}, 1)

SpecCopy == InitWriter /\ [][WriterInvokeUnreadable]_vars

\* ------------------------------------------- the utilization report parser
(* A report is a sequence of lines.  A "row" line is a table row: lead is  *)
(* the number of blanks between its first column delimiter and its first   *)
(* cell, cells are its cells, trimmed.  A "device" line carries the text   *)
(* after its first colon, trimmed.  A cell is a sequence of characters.    *)
Labels == {"Slice LUTs*", "Slice Registers", "DSPs", "Block RAM Tile", "URAM"}

Row(label, used) == [kind |-> "row", lead |-> 1, cells |-> <<label, used>>]

Digits == {"0", "2", "5", "6", "7", "8"}

DigitValue(c) ==
  IF c = "0" THEN 0 ELSE IF c = "2" THEN 2 ELSE IF c = "5" THEN 5
  ELSE IF c = "6" THEN 6 ELSE IF c = "7" THEN 7 ELSE 8

RECURSIVE DropUnderscores(_)
DropUnderscores(s) ==
  IF s = <<>> THEN <<>>
  ELSE (IF Head(s) = "_" THEN <<>> ELSE <<Head(s)>>) \o DropUnderscores(Tail(s))

RECURSIVE Decimal(_)
Decimal(s) == IF s = <<>> THEN 0 ELSE 10 * Decimal(SubSeq(s, 1, Len(s) - 1)) + DigitValue(s[Len(s)])

(* int(used_str) after the underscores are dropped: <<>> stands for None.  *)
ParseInt(cell) ==
  LET used_str == DropUnderscores(cell)
  IN IF used_str # <<>> /\ \A i \in 1..Len(used_str) : used_str[i] \in Digits
     THEN <<Decimal(used_str)>>
     ELSE <<>>

RECURSIVE ExtractUsed(_, _)
ExtractUsed(lines, label) ==
  IF lines = <<>> THEN <<>>
  ELSE LET line == Head(lines)
       IN IF line.kind = "row" /\ line.lead = 1 /\ line.cells # <<>>
             /\ line.cells[1] = label
          THEN IF Len(line.cells) < 2 THEN <<>> ELSE ParseInt(line.cells[2])
          ELSE ExtractUsed(Tail(lines), label)

RECURSIVE ParseDevice(_)
ParseDevice(lines) ==
  IF lines = <<>> THEN ""
  ELSE IF Head(lines).kind = "device" THEN Head(lines).cells[1]
       ELSE ParseDevice(Tail(lines))

(* The fields of the ResourceReport the parser imports.                    *)
ReportFields == {"tool", "target", "lut", "dsp", "bram"}

(* Constructing the dataclass: a keyword that is no field is a TypeError. *)
NewResourceReport(kwargs) ==
  IF DOMAIN kwargs \subseteq ReportFields
  THEN [raised |-> "none", report |-> <<kwargs>>, kwargs |-> kwargs]
  ELSE [raised |-> "TypeError", report |-> <<>>, kwargs |-> kwargs]

Parse(lines) ==
  LET device == ParseDevice(lines)
  IN NewResourceReport(
       [tool |-> "vivado",
        target |-> IF device # "" THEN device ELSE "unknown",
        lut |-> ExtractUsed(lines, "Slice LUTs*"),
        ff |-> ExtractUsed(lines, "Slice Registers"),
        dsp |-> ExtractUsed(lines, "DSPs"),
        bram |-> ExtractUsed(lines, "Block RAM Tile"),
        uram |-> ExtractUsed(lines, "URAM"),
        fmax_mhz |-> <<>>])

\* ------------------------------------- the resource utilization collaborator
ProjectRoot == <<"proj">>

DefaultProjectName(top_module, ts) == Sanitize(top_module) \o <<"_proj_", ToString(ts)>>

(* The stub: a fixed report, whatever the arguments.                       *)
StubRun(paths, top_name) ==
  [raised |-> "none",
   report |-> <<[tool |-> "HDL_TOOL_STUB", target |-> "GenericFPGA", lut |-> <<1234>>,
                 ff |-> <<2345>>, dsp |-> <<10>>, bram |-> <<3>>, uram |-> <<>>,
                 fmax_mhz |-> <<180>>]>>,
   project_dir |-> <<>>, tcl |-> FALSE, process |-> FALSE, slept |-> FALSE,
   read |-> FALSE, printed |-> <<>>, message |-> <<>>]

(* _run_vivado_batch: the captured output is printed when it is not empty, *)
(* then a non-zero exit code raises; the message names the exit code.      *)
RunVivadoBatch(env) ==
  IF ~env.settings_exists
  THEN [raised |-> "FileNotFoundError", process |-> FALSE, printed |-> <<>>,
        message |-> <<"Vivado settings script not found: ">>]
  ELSE LET printed == (IF env.stdout # <<>> THEN <<env.stdout>> ELSE <<>>)
                        \o (IF env.stderr # <<>> THEN <<env.stderr>> ELSE <<>>)
       IN IF env.returncode # 0
          THEN [raised |-> "RuntimeError", process |-> TRUE, printed |-> printed,
                message |-> <<"Vivado batch run failed (exit code ", ToString(env.returncode),
                              "). Check STDOUT/STDERR above.">>]
          ELSE [raised |-> "none", process |-> TRUE, printed |-> printed, message |-> <<>>]

(* _locate_report: the report file at the expected path, or not found.     *)
LocateReport(env) ==
  IF env.report = <<>>
  THEN [raised |-> "FileNotFoundError",
        message |-> <<"Utilization report not found at expected path: ">>]
  ELSE [raised |-> "none", message |-> <<>>]

(* The report file is looked up before the wait.                           *)
RunForFilesLocateFirst(hdl_files, top_module, ts, env) ==
  LET project_dir == ProjectRoot \o DefaultProjectName(top_module, ts)
      batch == RunVivadoBatch(env)
      located == LocateReport(env)
      made == [raised |-> batch.raised, report |-> <<>>, project_dir |-> project_dir,
               tcl |-> TRUE, process |-> batch.process, slept |-> FALSE, read |-> FALSE,
               printed |-> batch.printed, message |-> batch.message,
               steps |-> <<"validate", "project_dir", "script", "batch">>]
  IN IF hdl_files = <<>>
     THEN [raised |-> "ValueError", report |-> <<>>, project_dir |-> <<>>,
           tcl |-> FALSE, process |-> FALSE, slept |-> FALSE, read |-> FALSE,
           printed |-> <<>>,
           message |-> <<"No HDL files provided to ResourceUtilizationRunner">>,
           steps |-> <<"validate">>]
     ELSE IF batch.raised # "none"
     THEN made
     ELSE IF located.raised # "none"
     THEN [made EXCEPT !.raised = located.raised, !.message = located.message,
                       !.steps = made.steps \o <<"locate">>]
     ELSE LET parsed == Parse(env.report[1])
          IN [made EXCEPT !.raised = parsed.raised, !.report = parsed.report,
                          !.slept = TRUE, !.read = TRUE,
                          !.steps = made.steps \o <<"locate", "sleep", "parse">>]

(* The real runner.  env is what it finds outside: whether the settings    *)
(* script exists, the exit code of the batch run, and the report file at   *)
(* the expected path (<<>> if there is none, else <<lines>>).  steps lists *)
(* the steps entered, in the order of their calls.                         *)
RunForFiles(hdl_files, top_module, ts, env) ==
  LET project_dir == ProjectRoot \o DefaultProjectName(top_module, ts)
      batch == RunVivadoBatch(env)
      located == LocateReport(env)
      made == [raised |-> batch.raised, report |-> <<>>, project_dir |-> project_dir,
               tcl |-> TRUE, process |-> batch.process, slept |-> FALSE, read |-> FALSE,
               printed |-> batch.printed, message |-> batch.message,
               steps |-> <<"validate", "project_dir", "script", "batch">>]
      waited == [made EXCEPT !.slept = TRUE, !.steps = made.steps \o <<"sleep", "locate">>]
  IN IF hdl_files = <<>>
     THEN [raised |-> "ValueError", report |-> <<>>, project_dir |-> <<>>,
           tcl |-> FALSE, process |-> FALSE, slept |-> FALSE, read |-> FALSE,
           printed |-> <<>>,
           message |-> <<"No HDL files provided to ResourceUtilizationRunner">>,
           steps |-> <<"validate">>]
     ELSE IF batch.raised # "none"
     THEN made
     ELSE IF located.raised # "none"
     THEN [waited EXCEPT !.raised = located.raised, !.message = located.message]
     ELSE LET parsed == Parse(env.report[1])
          IN [waited EXCEPT !.raised = parsed.raised, !.report = parsed.report,
                            !.read = TRUE, !.steps = waited.steps \o <<"parse">>]

\* --------------------------- the collaborator and the parser, on their own
UsedCells == { <<"7">>, <<"0">>, <<"x">>, <<"6", "_", "7">>, <<"6", "_", "5", "2", "8">>, <<>> }

ReportLines ==
  { Row(l, u) : l \in Labels, u \in UsedCells }
    \cup { [kind |-> "row", lead |-> 1, cells |-> <<l>>] : l \in Labels }
    \cup { [kind |-> "row", lead |-> 2, cells |-> <<"DSPs", <<"7">>>>],
           [kind |-> "device", lead |-> 1, cells |-> <<"xc7">>] }

RunnerFileLists == { <<>>, <<[dir |-> <<"d1">>, name |-> <<"a", ".", "v">>]>> }

Envs ==
  [settings_exists : BOOLEAN,
   returncode : {0, 1},
   stdout : { <<>>, <<"o">> },
   stderr : { <<>>, <<"e">> },
   report : { <<>>, << <<>> >>, << <<Row("Slice LUTs*", <<"7">>)>> >> }]

QuietEnvs == { env \in Envs : env.stdout = <<>> /\ env.stderr = <<>> }

StubRunCall ==
  /\ pc = "start"
  /\ calls = <<>>
  /\ \E paths \in RunnerFileLists, top_name \in TopNames :
       LET r == StubRun(paths, top_name)
       IN calls' = <<[tool |-> "stub_run", files |-> paths, top_name |-> top_name,
                      raised |-> r.raised, report |-> r.report,
                      project_dir |-> r.project_dir, tcl |-> r.tcl,
                      process |-> r.process, slept |-> r.slept, read |-> r.read,
                      printed |-> r.printed, message |-> r.message]>>
  /\ UNCHANGED <<file_paths, chat_history, pc, flow, node, phase, state, output, out,
                 current_thought_idx, stream, nchunks, llm_requests, log, rundir, writes>>

RunForFilesCall(limit, envs) ==
  /\ pc = "start"
  /\ Len(calls) < limit
  /\ \E hdl_files \in RunnerFileLists, top_module \in TopNames, now \in Clock,
        env \in envs :
       LET r == RunForFiles(hdl_files, top_module, now, env)
       IN /\ now >= LastTs
          /\ calls' = Append(calls,
               [tool |-> "run_for_files", files |-> hdl_files, top_name |-> top_module,
                ts |-> now, env |-> env, raised |-> r.raised, report |-> r.report,
                project_dir |-> r.project_dir, tcl |-> r.tcl, process |-> r.process,
                slept |-> r.slept, read |-> r.read, printed |-> r.printed,
                message |-> r.message, steps |-> r.steps])
  /\ UNCHANGED <<file_paths, chat_history, pc, flow, node, phase, state, output, out,
                 current_thought_idx, stream, nchunks, llm_requests, log, rundir, writes>>

RunForFilesOnce == RunForFilesCall(1, Envs)

ParseCall ==
  /\ pc = "start"
  /\ calls = <<>>
  /\ \E lines \in SeqsUpTo(ReportLines, MaxLines) :
       LET r == Parse(lines)
       IN calls' = <<[tool |-> "parse", lines |-> lines, raised |-> r.raised,
                      report |-> r.report, kwargs |-> r.kwargs]>>
  /\ UNCHANGED <<file_paths, chat_history, pc, flow, node, phase, state, output, out,
                 current_thought_idx, stream, nchunks, llm_requests, log, rundir, writes>>

NextRunner ==
  \/ StubRunCall
  \/ RunForFilesOnce
  \/ ParseCall

SpecRunner == InitWriter /\ [][NextRunner]_vars

\* ------------------------------------- invocations that follow one another
WriterInvokeAgain == WriterInvoke(RunnerFileLists \ {<<>>}, {UpdatedBlock, <<"o">>}, MaxCalls)

RunForFilesAgain == RunForFilesCall(MaxCalls, QuietEnvs)

NextRuns ==
  \/ WriterInvokeAgain
  \/ RunForFilesAgain

SpecRuns == InitWriter /\ [][NextRuns]_vars

\* -------------------------------------------- the extractor, on its own
(* _parse_file_blocks applied to every text of at most MaxText characters  *)
(* and to every text of at most MaxRegions fenced regions, each with one   *)
(* of the bodies below: a header alone, a header with code, an annotated   *)
(* header, no header, a header on the second line, a header with an empty  *)
(* filename, a header surrounded by blank lines, and two header lines.     *)
ExtractAlphabet == {"F", "H", "N", "S", "P", "a", "b"}

Bodies ==
  { <<"H", "a">>,
    <<"H", "a", "N", "b">>,
    <<"H", "b", "N", "a">>,
    <<"H", "S", "a", "S", "P", "b", "N", "a">>,
    <<"a", "N", "b">>,
    <<"b", "N", "H", "a">>,
    <<"H", "P", "a">>,
    <<"N", "S", "H", "S", "b", "S", "N", "N">>,
    <<"H", "a", "N", "H", "b">> }

RegionsText(bodies) ==
  Concat([i \in 1..Len(bodies) |-> <<"F">> \o bodies[i] \o <<"F", "N">>])

ExtractTexts ==
  SeqsUpTo(ExtractAlphabet, MaxText)
    \cup { RegionsText(bodies) : bodies \in SeqsUpTo(Bodies, MaxRegions) }

ParseFileBlocksCall ==
  /\ pc = "start"
  /\ calls = <<>>
  /\ \E text \in ExtractTexts :
       calls' = <<[tool |-> "parse_file_blocks", text |-> text,
                   blocks |-> ParseFileBlocks(text)]>>
  /\ UNCHANGED <<file_paths, chat_history, pc, flow, node, phase, state, output, out,
                 current_thought_idx, stream, nchunks, llm_requests, log, rundir, writes>>

SpecExtract == InitWriter /\ [][ParseFileBlocksCall]_vars

\* ------------------------------------------- the two report classes' summaries
(* The report class of ResourceUtilizationTool: a summary lists the fields *)
(* that are present and nothing for the others; uram and extra are never   *)
(* listed.  fmax_mhz is a whole number of MHz here, printed with one       *)
(* decimal.                                                                *)
RECURSIVE JoinParts(_)
JoinParts(parts) ==
  IF parts = <<>> THEN <<>>
  ELSE IF Len(parts) = 1 THEN parts[1]
  ELSE parts[1] \o <<",">> \o JoinParts(Tail(parts))

StubPart(tag, x) == IF x # <<>> THEN << <<tag, ToString(x[1])>> >> ELSE <<>>

StubToHumanSummary(r) ==
  LET parts == StubPart("LUTs:", r.lut) \o StubPart("FFs:", r.ff) \o StubPart("DSPs:", r.dsp)
                 \o StubPart("BRAMs:", r.bram)
                 \o (IF r.fmax_mhz # <<>>
                     THEN << <<"Fmax:", ToString(r.fmax_mhz[1]), ".0", "MHz">> >>
                     ELSE <<>>)
  IN IF parts # <<>> THEN JoinParts(parts) ELSE <<"No metrics available.">>

OptValues == { <<>>, <<0>>, <<7>> }

StubReports ==
  [tool : {"HDL_TOOL_STUB"}, target : {"GenericFPGA"}, lut : OptValues, ff : OptValues,
   dsp : OptValues, bram : OptValues, uram : {<<>>, <<7>>}, fmax_mhz : {<<>>, <<180>>}]

RealReports ==
  [tool : {"vivado"}, target : {"xc7", "unknown"}, lut : OptValues, dsp : OptValues,
   bram : OptValues]

StubSummaryCall ==
  /\ pc = "start"
  /\ calls = <<>>
  /\ \E r \in StubReports :
       calls' = <<[tool |-> "stub_summary", report |-> r, summary |-> StubToHumanSummary(r)]>>
  /\ UNCHANGED <<file_paths, chat_history, pc, flow, node, phase, state, output, out,
                 current_thought_idx, stream, nchunks, llm_requests, log, rundir, writes>>

RealSummaryCall ==
  /\ pc = "start"
  /\ calls = <<>>
  /\ \E r \in RealReports :
       calls' = <<[tool |-> "real_summary", report |-> r, summary |-> ToHumanSummary(r)]>>
  /\ UNCHANGED <<file_paths, chat_history, pc, flow, node, phase, state, output, out,
                 current_thought_idx, stream, nchunks, llm_requests, log, rundir, writes>>

NextSummary ==
  \/ StubSummaryCall
  \/ RealSummaryCall

SpecSummary == InitWriter /\ [][NextSummary]_vars

\* ------------------------- resource_init, on each collaborator implementation
(* "stub" is the runner of ResourceUtilizationTool, whose report has no    *)
(* to_dict; "real" is the runner of app/modules/hdl, which has no run;     *)
(* "interface" is a runner with the members the stage calls.               *)
Collaborators == {"stub", "real", "interface"}

InitPathLists ==
  { <<>> } \cup { <<p>> : p \in CopyPaths }
    \cup { <<p, q>> : p \in CopyPaths, q \in CopyPaths }

InitHistories ==
  ChatHistories
    \cup { <<[role |-> "ai", content |-> <<"o">>]>>,
           <<[role |-> "human", content |-> <<"h">>], [role |-> "ai", content |-> <<"o">>]>> }

ResourceInitNode(st, impl, base_report) ==
  IF st.hdl_paths = <<>>
  THEN [raised |-> "ValueError", missing |-> "", base_summary |-> <<>>, update |-> <<>>]
  ELSE IF impl = "real"
  THEN [raised |-> "AttributeError", missing |-> "run", base_summary |-> <<>>,
        update |-> <<>>]
  ELSE IF impl = "stub"
  THEN LET stub_report == StubRun(st.hdl_paths, Stem(st.hdl_paths[1].name)).report[1]
       IN [raised |-> "AttributeError", missing |-> "to_dict",
           base_summary |-> StubToHumanSummary(stub_report), update |-> <<>>]
  ELSE [raised |-> "none", missing |-> "", base_summary |-> ToHumanSummary(base_report),
        update |-> <<ResourceInitUpdate(st, base_report)>>]

ResourceInitNodeCall ==
  /\ pc = "start"
  /\ calls = <<>>
  /\ \E hdl_paths \in InitPathLists, history \in InitHistories, impl \in Collaborators,
        base_report \in Reports :
       LET st == [hdl_paths |-> hdl_paths, query |-> Query, chat_history |-> history,
                  system_prompt |-> SystemPromptText]
           r == ResourceInitNode(st, impl, base_report)
       IN calls' = <<[tool |-> "resource_init", impl |-> impl, st |-> st,
                      report |-> IF impl = "interface" THEN <<base_report>> ELSE <<>>,
                      raised |-> r.raised, missing |-> r.missing,
                      base_summary |-> r.base_summary, update |-> r.update]>>
  /\ UNCHANGED <<file_paths, chat_history, pc, flow, node, phase, state, output, out,
                 current_thought_idx, stream, nchunks, llm_requests, log, rundir, writes>>

SpecInit == InitWriter /\ [][ResourceInitNodeCall]_vars

\* ------------------------------------------- two requests on one agent object
(* Each request is one run of _run_full_graph_flow on the events its own   *)
(* graph run delivers.  Here stream[r] is the event sequence of request r, *)
(* nchunks[r] the number of them it has handled, out[r] what it has        *)
(* yielded, state[r] its pipeline state, and current_thought_idx[c] the    *)
(* reasoning index kept in cell c.                                         *)
Requests == {1, 2}

\* The reasoning index is kept in one cell for all requests.
IdxCellShared(r) == 1

(* current_thought_idx is a local variable of the generator: one cell per  *)
(* request.                                                                *)
IdxCell(r) == r

ChainStart(name) ==
  [event |-> "on_chain_start", name |-> name, chunk |-> <<>>, output |-> EmptyState]

ChainEnd(name, update) ==
  [event |-> "on_chain_end", name |-> name, chunk |-> <<>>, output |-> update]

ChatModelStream(chunk) ==
  [event |-> "on_chat_model_stream", name |-> "ChatOpenAI", chunk |-> <<chunk>>,
   output |-> EmptyState]

RequestScripts ==
  { <<ChainStart("agent"),
      ChatModelStream(ListPayload(<<ReasoningPart(<<Item(0, <<"x">>)>>)>>)),
      ChatModelStream(ListPayload(<<ReasoningPart(<<Item(1, <<"y">>)>>)>>)),
      ChatModelStream(ListPayload(<<TextPart(<<"o">>)>>))>>,
    <<ChainStart("agent"),
      ChatModelStream(ListPayload(<<ReasoningPart(<<Item(1, <<"y">>)>>)>>)),
      ChatModelStream(ListPayload(<<ReasoningPart(<<Item(1, <<"y">>)>>)>>))>>,
    <<ChainStart("resource_init"),
      ChainEnd("resource_init", [top_name |-> <<"a">>, base_summary |-> <<"o">>]),
      ChainStart("agent"),
      ChatModelStream(ListPayload(<<ReasoningPart(<<Item(1, <<"y">>)>>)>>))>> }

(* One turn of the loop over graph.astream_events.                         *)
HandleGraphEvent(ev, idx) ==
  IF ev.event = "on_chain_start"
  THEN [events |-> IF ev.name \in StageNames THEN NodeStartThinking(ev.name) ELSE <<>>,
        idx |-> idx]
  ELSE IF ev.event = "on_chain_end"
  THEN [events |-> IF ev.name \in EndStageNames THEN NodeEndMessages(ev.name, ev.output)
                   ELSE <<>>,
        idx |-> idx]
  ELSE IF ev.event = "on_chat_model_stream"
  THEN ProcessLlmChunk(ev.chunk[1], idx)
  ELSE [events |-> <<>>, idx |-> idx]

InitConcurrent ==
  /\ file_paths = [isNone |-> TRUE, list |-> <<>>]
  /\ chat_history = <<>>
  /\ pc = "graph"
  /\ flow = "hdl_full_optimization_graph"
  /\ node = "none"
  /\ phase = "none"
  /\ state = [r \in Requests |-> EmptyState]
  /\ output = EmptyState
  /\ out = [r \in Requests |-> <<>>]
  /\ current_thought_idx = [c \in Requests |-> 0]
  /\ stream \in [Requests -> RequestScripts]
  /\ nchunks = [r \in Requests |-> 0]
  /\ llm_requests = <<>>
  /\ calls = <<>>
  /\ log = <<>>
  /\ rundir = NoFiles
  /\ writes = <<>>

RequestStep ==
  /\ \E r \in Requests :
       /\ nchunks[r] < Len(stream[r])
       /\ LET ev == stream[r][nchunks[r] + 1]
              idx == IF nchunks[r] = 0 THEN 0 ELSE current_thought_idx[IdxCell(r)]
              res == HandleGraphEvent(ev, idx)
          IN /\ out' = [out EXCEPT ![r] = @ \o res.events]
             /\ current_thought_idx' = [current_thought_idx EXCEPT ![IdxCell(r)] = res.idx]
             /\ state' = [state EXCEPT ![r] = Merge(@, ev.output)]
       /\ nchunks' = [nchunks EXCEPT ![r] = @ + 1]
  /\ UNCHANGED <<file_paths, chat_history, pc, flow, node, phase, output, stream,
                 llm_requests, calls, log, rundir, writes>>

SpecConcurrent == InitConcurrent /\ [][RequestStep]_vars

\* ------------------------------ the downstream stages, entered on a given state
DownstreamPathLists ==
  { <<>>,
    <<[dir |-> <<"d1">>, name |-> <<"a", ".", "v">>]>>,
    <<[dir |-> <<"run">>, name |-> <<"a", ".", "v">>]>>,
    <<[dir |-> <<"run">>, name |-> <<"a", ".", "v">>],
      [dir |-> <<"run">>, name |-> <<"b", ".", "v">>]>> }

DownstreamStates ==
  LET base(paths) == [hdl_paths |-> paths, query |-> Query, chat_history |-> <<>>,
                      system_prompt |-> SystemPromptText, top_name |-> <<"a">>,
                      base_summary |-> <<"o">>]
  IN { base(paths) : paths \in DownstreamPathLists }
       \cup { Merge(base(paths), [optimized_hdl_paths |-> opt]) :
                paths \in DownstreamPathLists, opt \in DownstreamPathLists }

EnterDownstream ==
  /\ pc = "start"
  /\ pc' = "graph"
  /\ flow' = "hdl_full_optimization_graph"
  /\ node' \in {"compile_check", "resource_final"}
  /\ phase' = "started"
  /\ state' \in DownstreamStates
  /\ UNCHANGED <<file_paths, chat_history, output, out, current_thought_idx, stream,
                 nchunks, llm_requests, calls, log, rundir, writes>>

NextDownstream ==
  \/ EnterDownstream
  \/ DownstreamCall
  \/ CompileCheckReturn
  \/ ResourceFinalReturn
  \/ CollaboratorRaise

SpecDownstream == InitWriter /\ [][NextDownstream]_vars

\* ------------------------------------------- the normalization, on its own
NormalizeParts ==
  { TextPart(<<"a">>), TextPart(<<"F", "H", "a", "F">>), TextPart(<<>>),
    [type |-> "output_text", text |-> <<"b">>, summary |-> <<>>],
    [type |-> "refusal", text |-> <<"b">>, summary |-> <<>>],
    ReasoningPart(<<Item(0, <<"F", "H", "a", "F">>)>>) }

NormalizePayloads ==
  { StrPayload(s) : s \in { <<>>, <<"a">>, <<"F", "H", "a", "F">> } }
    \cup { ListPayload(parts) : parts \in SeqsUpTo(NormalizeParts, MaxRegions) }
    \cup { [shape |-> "none", str |-> <<>>, parts |-> <<>>] }

ExtractTextCall ==
  /\ pc = "start"
  /\ calls = <<>>
  /\ \E content \in NormalizePayloads :
       calls' = <<[tool |-> "extract_text", content |-> content,
                   text |-> ExtractText(content)]>>
  /\ UNCHANGED <<file_paths, chat_history, pc, flow, node, phase, state, output, out,
                 current_thought_idx, stream, nchunks, llm_requests, log, rundir, writes>>

SpecNormalize == InitWriter /\ [][ExtractTextCall]_vars

\* ------------------------------- the pipeline from compile_check to its end
(* compile_check is entered on a state as apply_optimized_hdl leaves it,   *)
(* and the compile collaborator may report a failure.                      *)
EnterCompileCheck ==
  /\ pc = "start"
  /\ pc' = "graph"
  /\ flow' = "hdl_full_optimization_graph"
  /\ node' = "compile_check"
  /\ phase' = "pending"
  /\ state' \in { st \in DownstreamStates :
                    /\ "optimized_hdl_paths" \in DOMAIN st
                    /\ st.optimized_hdl_paths # <<>>
                    /\ st.hdl_paths # <<>> }
  /\ UNCHANGED <<file_paths, chat_history, output, out, current_thought_idx, stream,
                 nchunks, llm_requests, calls, log, rundir, writes>>

CompileCheckReturnAny == CompileCheckReturnOf(CompileOutcomes)

NextGate ==
  \/ EnterCompileCheck
  \/ NodeStart
  \/ DownstreamCall
  \/ CompileCheckReturnAny
  \/ ResourceFinalReturn
  \/ CollaboratorRaise
  \/ NodeEnd

(* The graph runs every stage it has started to its end; only the          *)
(* collaborator's failure is left open.                                    *)
SpecGate == InitWriter /\ [][NextGate]_vars /\ WF_vars(NextGate)

(* The same, on originals that share a base name and on file names that    *)
(* hold a path separator.                                                  *)
ParentBlock == <<"F", "N", "H", "S", ".", ".", "/", "c", ".", "v", "N", "b", "N", "F">>

AbsoluteBlock == <<"F", "N", "H", "S", "/", "d1", "/", "a", ".", "v", "N", "b", "N", "F">>

SubdirBlock == <<"F", "N", "H", "S", "c", "/", "c", ".", "v", "N", "b", "N", "F">>

WriterInvokeNamed ==
  WriterInvoke(SeqsUpTo(ExistingPaths \cup SameNamePaths, MaxPaths),
               {UpdatedBlock, NewFileBlock, ParentBlock, AbsoluteBlock, SubdirBlock}, 1)

SpecNames == InitWriter /\ [][WriterInvokeNamed]_vars

\* ================================================================== claims
FullFlow == flow = "hdl_full_optimization_graph"

PipelineOrder ==
  <<"resource_init", "agent", "apply_optimized_hdl", "compile_check", "resource_final">>

ClaimStages == {PipelineOrder[i] : i \in 1..Len(PipelineOrder)}

IsStart(e) == e.ev = "start"

Logged(ev, n) == \E k \in 1..Len(log) : log[k].ev = ev /\ log[k].node = n

OutCount(src, n) == Cardinality({i \in 1..Len(out) : out[i].src = src /\ out[i].node = n})

C2_ShortCircuit ==
  LET none == file_paths.isNone \/ Len(file_paths.list) = 0
      absent == \A i \in 1..Len(file_paths.list) : file_paths.list[i] \notin ExistingPaths
  IN (none \/ absent) =>
       /\ log = <<>>
       /\ calls = <<>>
       /\ node = "none"
       /\ pc \in {"start", "llm", "done"}
       /\ Len(llm_requests) = (IF pc = "start" THEN 0 ELSE 1)
       /\ \A i \in 1..Len(llm_requests) :
            LET m == llm_requests[i].messages
            IN /\ llm_requests[i].flow = (IF none THEN "hdl_no_files" ELSE "hdl_missing_files")
               /\ m[Len(m)].content[1] = (IF none THEN "No HDL files are attached"
                                          ELSE "paths do not exist")
       /\ \A i \in 1..Len(out) : out[i].src \in {"break", "reasoning", "answer"}

C2_Witness ==
  /\ ~file_paths.isNone
  /\ Len(file_paths.list) = 2
  /\ pc = "done"
  /\ flow = "hdl_missing_files"
  /\ Len(out) >= 2

(* C3: when at least one entry of file_paths exists, the full pipeline     *)
(* flow runs and hdl_paths is the subsequence of file_paths whose paths    *)
(* exist, in the caller's order.                                           *)
C3_ExistingSubsequence ==
  LET l == file_paths.list
      idx == {i \in 1..Len(l) : l[i] \in ExistingPaths}
      kth(k) == CHOOSE i \in idx : Cardinality({j \in idx : j <= i}) = k
  IN (idx # {} /\ pc # "start") =>
       /\ FullFlow
       /\ pc \in {"graph", "done", "error"}
       /\ Len(state.hdl_paths) = Cardinality(idx)
       /\ \A k \in 1..Len(state.hdl_paths) : state.hdl_paths[k] = l[kth(k)]

C3_Witness ==
  /\ pc = "done"
  /\ FullFlow
  /\ Len(file_paths.list) = 2
  /\ file_paths.list[1] \in MissingPaths
  /\ Len(state.hdl_paths) = 1

(* C4: every event of the full pipeline flow is a "think" or a "text";     *)
(* stage-start announcements, stage-end summary lines, paragraph breaks    *)
(* and reasoning tokens are "think", answer tokens and the closing         *)
(* summary_text are "text".                                                *)
C4_EventKinds ==
  FullFlow =>
    \A i \in 1..Len(out) :
      /\ out[i].kind \in {"think", "text"}
      /\ out[i].src \in {"start", "end", "break", "reasoning"} => out[i].kind = "think"
      /\ out[i].src \in {"answer", "summary"} => out[i].kind = "text"

C4_Witness ==
  /\ FullFlow
  /\ pc = "done"
  /\ \A s \in {"start", "end", "break", "reasoning", "answer", "summary"} :
       \E i \in 1..Len(out) : out[i].src = s

(* C5: a stage's start announcement precedes every other event of that     *)
(* stage; a stage's end summary is emitted only after the stage and every  *)
(* collaborator call it made have returned; the stages other than agent    *)
(* emit nothing between their start announcement and their end summary.    *)
C5_EventOrder ==
  FullFlow =>
    \A i \in 1..Len(out) :
      LET e == out[i]
      IN /\ e.src # "start" =>
              \E j \in 1..(i - 1) : out[j].src = "start" /\ out[j].node = e.node
         /\ e.src \in {"end", "summary"} =>
              /\ \E k \in 1..e.at : log[k].ev = "return" /\ log[k].node = e.node
              /\ \A k \in 1..Len(log) :
                   (log[k].ev = "call" /\ log[k].node = e.node) =>
                     \E m \in (k + 1)..e.at : log[m].ev = "ret" /\ log[m].node = e.node
         /\ e.node # "agent" => e.src \in {"start", "end", "summary"}
         /\ (e.node # "agent" /\ e.src # "start") =>
              /\ out[i - 1].node = e.node
              /\ out[i - 1].src \in {"start", "end"}

C5_Witness ==
  /\ FullFlow
  /\ pc = "done"
  /\ OutCount("reasoning", "agent") >= 1
  /\ OutCount("answer", "agent") >= 2
  /\ OutCount("summary", "resource_final") = 1

(* C6 as stated: in a completed run each of the five stages has exactly    *)
(* one start announcement and a "think" end summary line.                  *)
C6_Original ==
  (FullFlow /\ pc = "done") =>
    \A n \in ClaimStages :
      /\ OutCount("start", n) = 1
      /\ \E i \in 1..Len(out) :
           out[i].src = "end" /\ out[i].node = n /\ out[i].kind = "think"

(* C6 amended: in a completed run each of the five stages has exactly one  *)
(* "think" start announcement, one fixed text per stage; resource_init,    *)
(* apply_optimized_hdl, compile_check and resource_final each have exactly *)
(* one "think" end summary line, built from the stage's output (the        *)
(* report's target, the changed files, the compile status); agent has no   *)
(* end summary.                                                            *)
C6_StageAnnouncements ==
  (FullFlow /\ pc = "done") =>
    /\ \A n \in ClaimStages :
         /\ OutCount("start", n) = 1
         /\ \A i \in 1..Len(out) :
              (out[i].src = "start" /\ out[i].node = n) =>
                (out[i].kind = "think" /\ out[i].text = <<"->", n>>)
         /\ OutCount("end", n) = (IF n = "agent" THEN 0 ELSE 1)
    /\ \A i \in 1..Len(out) :
         out[i].src = "end" =>
           /\ out[i].kind = "think"
           /\ out[i].node = "apply_optimized_hdl" =>
                out[i].text = <<"[HDL Files]", "Wrote optimized HDL for">>
                                \o Concat(state.optimized_files)
           /\ out[i].node = "compile_check" =>
                (out[i].text[2] = "No compilation errors detected") = state.compile_ok
           /\ out[i].node = "resource_final" =>
                /\ out[i].text[2] = "Final utilization"
                /\ InSeq(state.resource_report.target, out[i].text)
           /\ out[i].node = "resource_init" =>
                /\ out[i].text[2] = "Initial utilization"
                /\ InSeq(state.base_summary[2], out[i].text)

C6_Witness ==
  /\ FullFlow
  /\ pc = "done"
  /\ OutCount("end", "resource_init") = 1
  /\ OutCount("end", "agent") = 0
  /\ Len(state.optimized_files) = 1

RECURSIVE ReasoningItems(_)
ReasoningItems(parts) ==
  IF parts = <<>> THEN <<>>
  ELSE (IF Head(parts).type = "reasoning"
        THEN SelectSeq(Head(parts).summary, LAMBDA it : it.hasText)
        ELSE <<>>) \o ReasoningItems(Tail(parts))

IsPrefix(a, b) == Len(a) <= Len(b) /\ SubSeq(b, 1, Len(a)) = a

OneGrowingIndex(items) ==
  /\ items # <<>>
  /\ \A k \in 1..Len(items) : items[k].index = items[1].index
  /\ \A k \in 2..Len(items) : IsPrefix(items[k - 1].text, items[k].text)

Texts(events) == [i \in 1..Len(events) |-> events[i].text]

IsReasoning(e) == e.src = "reasoning"

IsThinkStream(e) == e.src \in {"break", "reasoning"}

(* C7 as stated, for the stream loop of hdlagent.py: when every reasoning  *)
(* update of the stream is at one index and each text extends the previous *)
(* one, the concatenation of the reasoning texts emitted equals the last,  *)
(* full text.                                                              *)
C7_Original ==
  LET items == ReasoningItems(stream)
  IN OneGrowingIndex(items) =>
       Concat(Texts(SelectSeq(out, IsReasoning))) = items[Len(items)].text

(* C7 for the stream loop of app/modules/agent/matlab_agent.py, which      *)
(* keeps the last text per index: there the concatenation of the emitted   *)
(* suffixes equals the last, full text.                                    *)
C7_SuffixStreamHolds ==
  LET items == ReasoningItems(stream)
      emitted == SuffixStream(items, [cache |-> [i \in {} |-> <<>>], events |-> <<>>]).events
  IN OneGrowingIndex(items) => Concat(Texts(emitted)) = items[Len(items)].text

RunMax(items, k) ==
  LET S == {0} \cup {items[j].index : j \in 1..k}
  IN CHOOSE m \in S : \A x \in S : x <= m

(* C8: in the order of the reasoning updates of the stream, a paragraph    *)
(* break ("think", two newlines) is emitted immediately before the text of *)
(* exactly those updates whose index is greater than every index seen      *)
(* before in the stream (the tracked index starts at 0), once per advance; *)
(* the tracked index is the greatest index seen, across chunks.            *)
C8_ParagraphBreaks ==
  LET items == ReasoningItems(stream)
      expected == Concat([k \in 1..Len(items) |->
                    (IF items[k].index > RunMax(items, k - 1)
                     THEN << <<"think", "break", ParagraphBreak>> >> ELSE <<>>)
                    \o << <<"think", "reasoning", items[k].text>> >>])
      think == SelectSeq(out, IsThinkStream)
  IN /\ [i \in 1..Len(think) |-> <<think[i].kind, think[i].src, think[i].text>>] = expected
     /\ current_thought_idx = RunMax(items, Len(items))

C8_Witness ==
  LET items == ReasoningItems(stream)
  IN /\ pc = "done"
     /\ nchunks = 3
     /\ Len(items) = 4
     /\ items[4].index < current_thought_idx
     /\ Cardinality({i \in 1..Len(out) : out[i].src = "break"}) = 2

ApplyStage == "apply_optimized_hdl"

ApplyDone ==
  \/ node = ApplyStage /\ phase \in {"returned", "raised"}
  \/ node \in {"compile_check", "resource_final", "END"}

ResponseText == ExtractText(state.agent_response.content)

(* A header token lies between an odd-numbered fence and a later fence.    *)
HeaderInsideFence(text) ==
  \E i \in 1..Len(text) :
    /\ text[i] = "H"
    /\ Cardinality({j \in 1..(i - 1) : text[j] = "F"}) % 2 = 1
    /\ \E j \in (i + 1)..Len(text) : text[j] = "F"

(* C9: when the response has no filename header inside any fenced region,  *)
(* apply_optimized_hdl ends with the writer's "No optimized HDL file       *)
(* blocks found" error; the writer never returns an empty changed_files    *)
(* and the "no explicit optimized files" line is never produced.           *)
C9_NoBlocksIsAnError ==
  ApplyDone =>
    /\ ~HeaderInsideFence(ResponseText) =>
         /\ Logged("raise", ApplyStage)
         /\ pc = "error"
         /\ "optimized_files" \notin DOMAIN state
    /\ "optimized_files" \in DOMAIN state => state.optimized_files # <<>>
    /\ \A i \in 1..Len(out) :
         (out[i].src = "end" /\ out[i].node = ApplyStage) =>
           out[i].text[2] = "Wrote optimized HDL for"

C9_Witness ==
  /\ Logged("raise", ApplyStage)
  /\ InSeq("F", ResponseText)
  /\ InSeq("H", ResponseText)
  /\ ~HeaderInsideFence(ResponseText)

(* C10: when the response yields no file block, the pipeline aborts in     *)
(* apply_optimized_hdl: compile_check and resource_final never start, no   *)
(* collaborator is called for them, no summary_text exists or is emitted,  *)
(* and the run directory holds exactly the copies of the original files.   *)
C10_ExtractionErrorAborts ==
  (ApplyDone /\ ParseFileBlocks(ResponseText) = <<>>) =>
    /\ pc = "error"
    /\ node = ApplyStage
    /\ phase = "raised"
    /\ \A k \in 1..Len(log) : log[k].node \notin {"compile_check", "resource_final"}
    /\ \A k \in 1..Len(calls) : calls[k].node \notin {"compile_check", "resource_final"}
    /\ "summary_text" \notin DOMAIN state
    /\ \A i \in 1..Len(out) : out[i].src # "summary"
    /\ \A k \in 1..Len(writes) : writes[k].from = "copy"
    /\ DOMAIN rundir = {state.hdl_paths[k].name : k \in 1..Len(state.hdl_paths)}
    /\ \A k \in 1..Len(state.hdl_paths) :
         rundir[state.hdl_paths[k].name] = <<"o">> \o state.hdl_paths[k].name

C10_Witness ==
  /\ pc = "error"
  /\ node = ApplyStage
  /\ ParseFileBlocks(ResponseText) = <<>>
  /\ InSeq("F", ResponseText)
  /\ Len(state.hdl_paths) = 2
  /\ Len(writes) = 2

PkgFile == [dir |-> <<"d1">>, name |-> <<"b", ".", "v">>]

TopFile == [dir |-> <<"d1">>, name |-> <<"a", ".", "v">>]

ScenarioA(c) == c.original_paths = <<PkgFile, TopFile>> /\ c.text = UpdatedBlock

InRunDir(c, name) == [dir |-> c.run_dir, name |-> name]

Names(paths) == [k \in 1..Len(paths) |-> paths[k].name]

NoDuplicates(s) == \A i, j \in 1..Len(s) : s[i] = s[j] => i = j

(* The filenames the responses of WriterTexts declare, by first appearance. *)
DeclaredNames(text) ==
  IF text = <<"o">> THEN <<>>
  ELSE IF text = UpdatedBlock THEN << <<"a", ".", "v">> >>
  ELSE IF text = NewFileBlock THEN << <<"c", ".", "v">> >>
  ELSE IF text[3] = "H" /\ text[5] = "a"
       THEN << <<"a", ".", "v">>, <<"c", ".", "v">> >>
       ELSE << <<"c", ".", "v">>, <<"a", ".", "v">> >>

(* What every returning invocation satisfies: changed_files is the list of *)
(* declared filenames in extraction order, all_paths is the copies of the  *)
(* originals followed by the written files that are not among them, and a  *)
(* copy that no block names has the content of its original.               *)
WriterResultShape(c) ==
  LET copied == [k \in 1..Len(c.original_paths) |-> InRunDir(c, c.original_paths[k].name)]
      fresh == SelectSeq(c.changed_files, LAMBDA n : ~InSeq(n, Names(c.original_paths)))
  IN /\ c.changed_files = DeclaredNames(c.text)
     /\ NoDuplicates(c.changed_files)
     /\ c.all_paths = copied \o [k \in 1..Len(fresh) |-> InRunDir(c, fresh[k])]
     /\ \A k \in 1..Len(c.original_paths) :
          ~InSeq(c.original_paths[k].name, c.changed_files) =>
            rundir[c.original_paths[k].name] = ReadText(c.original_paths[k])

(* C11 as stated: in scenario A (originals pkg, top; one block with the    *)
(* header "File: top (UPDATED)" and body B) changed_files is [top],        *)
(* all_paths holds the untouched copy of pkg and the rewritten top, and    *)
(* the content of top is exactly B followed by one newline.                *)
C11_Original ==
  \A k \in 1..Len(WriterCalls) :
    LET c == WriterCalls[k]
    IN (~c.raised /\ ScenarioA(c)) =>
         /\ c.changed_files = <<TopFile.name>>
         /\ c.all_paths = <<InRunDir(c, PkgFile.name), InRunDir(c, TopFile.name)>>
         /\ rundir[PkgFile.name] = ReadText(PkgFile)
         /\ rundir[TopFile.name] = <<"o", "N">>

(* C11 amended: in scenario A changed_files is [top], all_paths holds the  *)
(* untouched copy of pkg and the rewritten top, and the content of top is  *)
(* the whole region, header line included, trimmed and followed by one     *)
(* newline (header line, newline, B, newline); in general changed_files is *)
(* the declared filenames in extraction order and all_paths is the copied  *)
(* originals followed by the newly written files not already among them.   *)
C11_WriterResult ==
  \A k \in 1..Len(WriterCalls) :
    LET c == WriterCalls[k]
    IN ~c.raised =>
         /\ WriterResultShape(c)
         /\ ScenarioA(c) =>
              /\ c.changed_files = <<TopFile.name>>
              /\ c.all_paths = <<InRunDir(c, PkgFile.name), InRunDir(c, TopFile.name)>>
              /\ rundir[PkgFile.name] = ReadText(PkgFile)
              /\ rundir[TopFile.name] =
                   <<"H", "S", "a", ".", "v", "S", "P", "N", "o", "N">>

C11_Witness ==
  /\ Len(WriterCalls) = 1
  /\ ~WriterCalls[1].raised
  /\ ScenarioA(WriterCalls[1])

InitialKeys == {"hdl_paths", "query", "chat_history", "system_prompt"}

(* C12: a pipeline started with an empty hdl_paths fails in resource_init: *)
(* the stage raises before it calls a collaborator or reads a file, the    *)
(* model and the compile check are never called, no later stage starts,    *)
(* and the state holds no update (it is the initial state).                *)
C12_EmptyPathsAbort ==
  (pc \in {"graph", "error", "done"} /\ state.hdl_paths = <<>>) =>
    /\ node = "resource_init"
    /\ pc # "done"
    /\ phase \in {"pending", "started", "raised"}
    /\ phase = "raised" => pc = "error"
    /\ calls = <<>>
    /\ llm_requests = <<>>
    /\ writes = <<>>
    /\ output = EmptyState
    /\ DOMAIN state = InitialKeys
    /\ \A k \in 1..Len(log) : log[k].node = "resource_init" /\ log[k].ev \in {"start", "raise"}
    /\ \A i \in 1..Len(out) : out[i].src = "start" /\ out[i].node = "resource_init"

C12_Witness ==
  /\ pc = "error"
  /\ state.hdl_paths = <<>>
  /\ Logged("raise", "resource_init")

(* C13 as stated: write_from_agent_response called with an empty           *)
(* original_paths always fails, and does so before the run directory       *)
(* receives any file.                                                      *)
C13_Original ==
  \A k \in 1..Len(WriterCalls) :
    WriterCalls[k].original_paths = <<>> =>
      /\ WriterCalls[k].raised
      /\ WriterCalls[k].all_paths = <<>>
      /\ writes = <<>>
      /\ rundir = NoFiles

(* C14 as stated: the collaborator, stub or real, called with an empty     *)
(* file list raises the input error; it creates no project directory,      *)
(* writes no script, starts no process and returns no report.              *)
C14_Original ==
  \A k \in 1..Len(calls) :
    (calls[k].tool \in {"stub_run", "run_for_files"} /\ calls[k].files = <<>>) =>
      /\ calls[k].raised = "ValueError"
      /\ calls[k].project_dir = <<>>
      /\ ~calls[k].tcl
      /\ ~calls[k].process
      /\ calls[k].report = <<>>

(* The real runner alone does satisfy C14.                                 *)
C14_RealRunnerHolds ==
  \A k \in 1..Len(calls) :
    (calls[k].tool = "run_for_files" /\ calls[k].files = <<>>) =>
      /\ calls[k].raised = "ValueError"
      /\ calls[k].project_dir = <<>>
      /\ ~calls[k].tcl
      /\ ~calls[k].process
      /\ calls[k].report = <<>>

DirOf(c) == IF c.tool = "hdl_writer" THEN c.run_dir ELSE c.project_dir

(* C15 as stated: two invocations of the writer for the same top-module   *)
(* name get distinct run directories, and two runs of the collaborator for *)
(* the same top module get distinct project directories.                   *)
C15_Original ==
  \A i, j \in 1..Len(calls) :
    (/\ i < j
     /\ calls[i].tool = calls[j].tool
     /\ calls[i].top_name = calls[j].top_name
     /\ DirOf(calls[i]) # <<>>
     /\ DirOf(calls[j]) # <<>>) => DirOf(calls[i]) # DirOf(calls[j])

(* Two invocations in different seconds do get distinct directories.       *)
C15_DistinctSecondsHolds ==
  \A i, j \in 1..Len(calls) :
    (/\ i < j
     /\ calls[i].tool = calls[j].tool
     /\ calls[i].ts # calls[j].ts
     /\ DirOf(calls[i]) # <<>>
     /\ DirOf(calls[j]) # <<>>) => DirOf(calls[i]) # DirOf(calls[j])

(* The fenced regions of a text that declare a filename, in order: each   *)
(* with the filename and the content it declares.                          *)
NamedRegions(text) ==
  LET regions == FenceBlocks(text)
      decl == [i \in 1..Len(regions) |->
                 LET lines == SplitLines(regions[i])
                     fn == BlockFileName(lines)
                 IN [named |-> fn.found /\ fn.name # <<>>, name |-> fn.name,
                     code |-> Strip(regions[i]) \o <<"N">>]]
  IN SelectSeq(decl, LAMBDA d : d.named)

FirstAt(named, name) == CHOOSE i \in 1..Len(named) :
  named[i].name = name /\ \A j \in 1..(i - 1) : named[j].name # name

LastAt(named, name) == CHOOSE i \in 1..Len(named) :
  named[i].name = name /\ \A j \in (i + 1)..Len(named) : named[j].name # name

(* C16: the mapping has one entry per declared filename; an entry holds    *)
(* the content of the last region that declares its filename, and the      *)
(* entries are ordered by the first region that declares each filename.    *)
C16_LastWinsFirstPosition ==
  \A k \in 1..Len(calls) :
    calls[k].tool = "parse_file_blocks" =>
      LET blocks == calls[k].blocks
          named == NamedRegions(calls[k].text)
      IN /\ {blocks[i].name : i \in 1..Len(blocks)} = {named[i].name : i \in 1..Len(named)}
         /\ \A i, j \in 1..Len(blocks) : blocks[i].name = blocks[j].name => i = j
         /\ \A i \in 1..Len(blocks) :
              blocks[i].code = named[LastAt(named, blocks[i].name)].code
         /\ \A i, j \in 1..Len(blocks) :
              i < j => FirstAt(named, blocks[i].name) < FirstAt(named, blocks[j].name)

C16_Witness ==
  /\ Len(calls) = 1
  /\ calls[1].tool = "parse_file_blocks"
  /\ LET named == NamedRegions(calls[1].text)
     IN /\ Len(named) = 3
        /\ named[1].name = named[3].name
        /\ named[1].name # named[2].name
        /\ named[1].code # named[3].code
        /\ Len(calls[1].blocks) = 2

(* Each content of a mapping wrapped back into a fenced region.            *)
Rewrap(blocks) ==
  Concat([i \in 1..Len(blocks) |-> <<"F", "N">> \o blocks[i].code \o <<"F", "N">>])

(* C17: the extractor applied to the re-wrapped contents of its own        *)
(* mapping gives the same mapping, names, contents and order.              *)
C17_RewrapIdempotent ==
  \A k \in 1..Len(calls) :
    calls[k].tool = "parse_file_blocks" =>
      ParseFileBlocks(Rewrap(calls[k].blocks)) = calls[k].blocks

C17_Witness ==
  /\ Len(calls) = 1
  /\ calls[1].tool = "parse_file_blocks"
  /\ Len(calls[1].blocks) = 2
  /\ Rewrap(calls[1].blocks) # calls[1].text
  /\ \E i \in 1..Len(calls[1].blocks) : Len(SplitLines(calls[1].blocks[i].code)) = 2

(* C18 as stated: when a stage of the pipeline fails, the stream to the    *)
(* caller ends with an error message, its last item and the only one.      *)
C18_Original ==
  (FullFlow /\ pc = "error") =>
    /\ out # <<>>
    /\ out[Len(out)].src = "error"
    /\ Cardinality({i \in 1..Len(out) : out[i].src = "error"}) = 1

ReportKeys == {"resource_report"}

(* C19 as stated: in the final state of a completed run summary_text is    *)
(* present and the reports that resource_init and resource_final captured  *)
(* are both held by the state.                                             *)
C19_Original ==
  (FullFlow /\ pc = "done") =>
    /\ "summary_text" \in DOMAIN state
    /\ \A r \in Reports :
         ToHumanSummary(r) \in {state.base_summary, state.final_summary} =>
           \E k \in ReportKeys \cap DOMAIN state : state[k] = ToDict(r)

(* What the final state does hold: summary_text, the two rendered          *)
(* summaries, and the report of resource_final alone.                      *)
C19_SummariesHold ==
  (FullFlow /\ pc = "done") =>
    /\ {"summary_text", "base_summary", "final_summary", "resource_report"}
         \subseteq DOMAIN state
    /\ state.summary_text = <<"Before optimization">> \o state.base_summary
                              \o <<"After optimization">> \o state.final_summary
    /\ ToHumanSummary(state.resource_report) = state.final_summary

FieldLabel ==
  [lut |-> "Slice LUTs*", ff |-> "Slice Registers", dsp |-> "DSPs",
   bram |-> "Block RAM Tile", uram |-> "URAM"]

HasRow(lines, label) ==
  \E i \in 1..Len(lines) : lines[i].kind = "row" /\ lines[i].cells[1] = label

IsNumber(cell) ==
  /\ \E i \in 1..Len(cell) : cell[i] \in Digits
  /\ \A i \in 1..Len(cell) : cell[i] \in Digits \cup {"_"}

(* C20 as stated: parse returns a report; a field whose row is missing or  *)
(* whose used cell is no integer is None in it.                            *)
C20_Original ==
  \A k \in 1..Len(calls) :
    calls[k].tool = "parse" =>
      /\ calls[k].raised = "none"
      /\ \A f \in DOMAIN FieldLabel :
           (\A i \in 1..Len(calls[k].lines) :
              (calls[k].lines[i].kind = "row"
                 /\ calls[k].lines[i].cells[1] = FieldLabel[f])
                => (Len(calls[k].lines[i].cells) < 2
                      \/ ~IsNumber(calls[k].lines[i].cells[2])))
             => calls[k].report[1][f] = <<>>

(* The values parse extracts, before it builds the report, do follow the   *)
(* rule: None for a missing or non-integer row, never a made-up 0.         *)
C20_ExtractedValuesHold ==
  \A k \in 1..Len(calls) :
    calls[k].tool = "parse" =>
      \A f \in DOMAIN FieldLabel :
        /\ (\A i \in 1..Len(calls[k].lines) :
              (calls[k].lines[i].kind = "row"
                 /\ calls[k].lines[i].cells[1] = FieldLabel[f])
                => (Len(calls[k].lines[i].cells) < 2
                      \/ ~IsNumber(calls[k].lines[i].cells[2])))
             => calls[k].kwargs[f] = <<>>
        /\ calls[k].kwargs[f] = <<0>> =>
             \E i \in 1..Len(calls[k].lines) :
               /\ calls[k].lines[i].kind = "row"
               /\ calls[k].lines[i].cells[1] = FieldLabel[f]
               /\ Len(calls[k].lines[i].cells) >= 2
               /\ IsNumber(calls[k].lines[i].cells[2])

FirstRowOf(lines, label) ==
  { i \in 1..Len(lines) :
      /\ lines[i].kind = "row" /\ lines[i].cells[1] = label
      /\ \A j \in 1..(i - 1) : ~(lines[j].kind = "row" /\ lines[j].cells[1] = label) }

(* C21 as stated: for a line that starts with the column delimiter and     *)
(* whose first cell is a metric label, parse returns a report whose field  *)
(* is the second cell, separators stripped, read as an integer; the row    *)
(* | Slice LUTs* | 6_528 | ... gives lut = 6528.                           *)
C21_Original ==
  \A k \in 1..Len(calls) :
    calls[k].tool = "parse" =>
      /\ calls[k].raised = "none"
      /\ \A f \in DOMAIN FieldLabel :
           \A i \in FirstRowOf(calls[k].lines, FieldLabel[f]) :
             Len(calls[k].lines[i].cells) >= 2 =>
               /\ calls[k].report[1][f] = ParseInt(calls[k].lines[i].cells[2])
               /\ (f = "lut" /\ calls[k].lines[i].cells[2] = <<"6", "_", "5", "2", "8">>)
                    => calls[k].report[1].lut = <<6528>>

(* The value parse extracts before it builds the report is the one the     *)
(* rule gives, for a row written with one blank after the delimiter.       *)
C21_ExtractedValueHolds ==
  \A k \in 1..Len(calls) :
    calls[k].tool = "parse" =>
      \A f \in DOMAIN FieldLabel :
        \A i \in FirstRowOf(calls[k].lines, FieldLabel[f]) :
          (Len(calls[k].lines[i].cells) >= 2 /\ calls[k].lines[i].lead = 1) =>
            /\ calls[k].kwargs[f] = ParseInt(calls[k].lines[i].cells[2])
            /\ (f = "lut" /\ calls[k].lines[i].cells[2] = <<"6", "_", "5", "2", "8">>)
                 => calls[k].kwargs.lut = <<6528>>

NumericTag ==
  [stub_summary |-> [lut |-> "LUTs:", ff |-> "FFs:", dsp |-> "DSPs:", bram |-> "BRAMs:",
                     uram |-> "URAM:", fmax_mhz |-> "Fmax:"],
   real_summary |-> [lut |-> "LUTs=", dsp |-> "DSPs=", bram |-> "BRAMs="]]

RenderedAs(summary, tag, text) ==
  \E i \in 1..(Len(summary) - 1) : summary[i] = tag /\ summary[i + 1] = text

(* C22 as stated: in the summary of a report of either class every absent  *)
(* numeric field reads "N/A", and none reads 0.                            *)
C22_Original ==
  \A k \in 1..Len(calls) :
    calls[k].tool \in DOMAIN NumericTag =>
      \A f \in DOMAIN NumericTag[calls[k].tool] :
        calls[k].report[f] = <<>> =>
          /\ RenderedAs(calls[k].summary, NumericTag[calls[k].tool][f], "N/A")
          /\ ~RenderedAs(calls[k].summary, NumericTag[calls[k].tool][f], "0")

(* It holds of the report class the parser imports, and no class renders   *)
(* an absent field as 0.                                                   *)
C22_RealReportHolds ==
  \A k \in 1..Len(calls) :
    calls[k].tool \in DOMAIN NumericTag =>
      \A f \in DOMAIN NumericTag[calls[k].tool] :
        calls[k].report[f] = <<>> =>
          /\ calls[k].tool = "real_summary" =>
               RenderedAs(calls[k].summary, NumericTag[calls[k].tool][f], "N/A")
          /\ ~RenderedAs(calls[k].summary, NumericTag[calls[k].tool][f], "0")

RunnerCalls == { k \in 1..Len(calls) : calls[k].tool = "run_for_files" /\ calls[k].files # <<>> }

Carries(message, text) == text = <<>> \/ \E i \in 1..Len(message) : message[i] = text[1]

(* C23 as stated: a non-zero exit code fails the call with an execution    *)
(* error that carries the captured stdout and stderr, before any wait or   *)
(* report read; a missing report file fails it with a not-found error; no  *)
(* report is returned in either case.                                      *)
C23_Original ==
  \A k \in RunnerCalls :
    calls[k].env.settings_exists =>
      /\ calls[k].env.returncode # 0 =>
           /\ calls[k].raised = "RuntimeError"
           /\ Carries(calls[k].message, calls[k].env.stdout)
           /\ Carries(calls[k].message, calls[k].env.stderr)
           /\ ~calls[k].slept /\ ~calls[k].read /\ calls[k].report = <<>>
      /\ (calls[k].env.returncode = 0 /\ calls[k].env.report = <<>>) =>
           /\ calls[k].raised = "FileNotFoundError"
           /\ calls[k].report = <<>>

(* What the runner does: the execution error names the exit code only;    *)
(* the captured stdout and stderr, when not empty, have been printed       *)
(* before it is raised and are not part of it.  The rest is as stated.     *)
C23_FailureOutcomesHold ==
  \A k \in RunnerCalls :
    calls[k].env.settings_exists =>
      /\ calls[k].env.returncode # 0 =>
           /\ calls[k].raised = "RuntimeError"
           /\ Carries(calls[k].message, <<ToString(calls[k].env.returncode)>>)
           /\ \A text \in {calls[k].env.stdout, calls[k].env.stderr} :
                text # <<>> =>
                  /\ ~Carries(calls[k].message, text)
                  /\ \E i \in 1..Len(calls[k].printed) : calls[k].printed[i] = text
           /\ ~calls[k].slept /\ ~calls[k].read /\ calls[k].report = <<>>
      /\ (calls[k].env.returncode = 0 /\ calls[k].env.report = <<>>) =>
           /\ calls[k].raised = "FileNotFoundError"
           /\ calls[k].slept /\ ~calls[k].read
           /\ calls[k].report = <<>>

InitCalls == { k \in 1..Len(calls) : calls[k].tool = "resource_init" /\ calls[k].st.hdl_paths # <<>> }

InitUpdateShape(c) ==
  /\ c.raised = "none"
  /\ c.update # <<>>
  /\ DOMAIN c.update[1] = {"top_name", "hdl_bundle", "base_summary", "resource_report", "messages"}
  /\ LET m == c.update[1].messages
         h == c.st.chat_history
     IN /\ Len(m) = Len(h) + 2
        /\ m[1] = Msg("system", c.st.system_prompt)
        /\ \A i \in 1..Len(h) : m[i + 1] = h[i]
        /\ m[Len(m)].role = "human"

(* C24 as stated: on a non-empty hdl_paths resource_init completes with    *)
(* either collaborator implementation and returns exactly the keys         *)
(* top_name, hdl_bundle, base_summary, resource_report, messages, where    *)
(* messages is the system prompt, the prior history unchanged and in       *)
(* order, and one new human turn.                                          *)
C24_Original ==
  \A k \in InitCalls : InitUpdateShape(calls[k])

(* With a collaborator that has the members the stage calls, it holds.     *)
C24_InterfaceHolds ==
  \A k \in InitCalls : calls[k].impl = "interface" => InitUpdateShape(calls[k])

(* What one request yields and holds after its first n events when it runs *)
(* alone.                                                                  *)
RECURSIVE Alone(_, _)
Alone(script, n) ==
  IF n = 0 THEN [events |-> <<>>, idx |-> 0, state |-> EmptyState]
  ELSE LET before == Alone(script, n - 1)
           res == HandleGraphEvent(script[n], before.idx)
       IN [events |-> before.events \o res.events, idx |-> res.idx,
           state |-> Merge(before.state, script[n].output)]

(* C25: whatever the interleaving of two requests, each has yielded        *)
(* exactly what it yields alone on the same events, and holds the pipeline *)
(* state it holds alone.                                                   *)
C25_RequestsIndependent ==
  \A r \in Requests :
    /\ out[r] = Alone(stream[r], nchunks[r]).events
    /\ state[r] = Alone(stream[r], nchunks[r]).state

C25_Witness ==
  /\ \A r \in Requests : nchunks[r] >= 2 /\ nchunks[r] < Len(stream[r])
  /\ Alone(stream[1], nchunks[1]).idx # Alone(stream[2], nchunks[2]).idx
  /\ \E i \in 1..Len(out[2]) : out[2][i].src = "break"

DownstreamTool == [compile_check |-> "compile_runner", resource_final |-> "resource_runner"]

(* C26: once compile_check or resource_final has looked at its state, it   *)
(* has either raised without calling its collaborator (the selected list   *)
(* is empty) or called its own collaborator with exactly the selected      *)
(* list: optimized_hdl_paths if the key is present, else hdl_paths.        *)
C26_SameSelection ==
  (pc \in {"graph", "error"} /\ node \in DOMAIN DownstreamTool /\ phase # "started") =>
    LET selected == IF "optimized_hdl_paths" \in DOMAIN state
                    THEN state.optimized_hdl_paths ELSE state.hdl_paths
    IN IF selected = <<>>
       THEN phase = "raised" /\ pc = "error" /\ calls = <<>>
       ELSE /\ Len(calls) = 1
            /\ calls[1].files = selected
            /\ calls[1].tool = DownstreamTool[node]

C26_Witness ==
  /\ pc = "graph"
  /\ node = "resource_final"
  /\ phase = "calling"
  /\ "optimized_hdl_paths" \in DOMAIN state
  /\ state.optimized_hdl_paths # state.hdl_paths
  /\ state.hdl_paths # <<>>
  /\ calls # <<>>
  /\ calls[1].files = state.optimized_hdl_paths

EarlierStageKeys ==
  {"hdl_bundle", "base_summary", "messages", "agent_response", "optimized_hdl_paths",
   "optimized_files", "compile_ok", "compile_errors"}

(* C27: in the pipeline the input keys hold their initial values and       *)
(* top_name is the stem of the first path's name; no step removes a key,   *)
(* and no step changes the value of a key it finds, except that of         *)
(* resource_report.                                                        *)
C27_MergeKeepsKeys ==
  /\ [](FullFlow =>
          /\ InitialKeys \subseteq DOMAIN state
          /\ state.hdl_paths = ExistingOf(file_paths.list)
          /\ state.query = Query
          /\ state.chat_history = chat_history
          /\ state.system_prompt = SystemPromptText
          /\ "top_name" \in DOMAIN state => state.top_name = Stem(state.hdl_paths[1].name))
  /\ [][FullFlow =>
          \A k \in DOMAIN state :
            /\ k \in DOMAIN state'
            /\ k # "resource_report" => state'[k] = state[k]]_vars

C27_Witness ==
  /\ FullFlow
  /\ pc = "done"
  /\ EarlierStageKeys \cup InitialKeys \cup {"top_name", "resource_report"} \subseteq DOMAIN state
  /\ ToHumanSummary(state.resource_report) # state.base_summary

StageReads ==
  [resource_init |-> {"hdl_paths", "query", "chat_history", "system_prompt"},
   agent |-> {"messages"},
   apply_optimized_hdl |-> {"hdl_paths", "agent_response", "top_name"},
   compile_check |-> {"top_name"},
   resource_final |-> {"top_name", "base_summary"}]

ProducedBy ==
  [messages |-> "resource_init", top_name |-> "resource_init",
   base_summary |-> "resource_init", agent_response |-> "agent"]

(* C28: while a stage is due or running, every key it reads is in the      *)
(* state, and is an input key or was written by a stage that has returned. *)
C28_ReadsAreProduced ==
  (FullFlow /\ pc = "graph" /\ phase \in {"pending", "started", "calling"}) =>
    \A k \in StageReads[node] :
      /\ k \in DOMAIN state
      /\ \/ k \in InitialKeys
         \/ \E i \in 1..Len(log) : log[i] = LogEntry("return", ProducedBy[k])

C28_Witness ==
  /\ FullFlow
  /\ pc = "graph"
  /\ node = "resource_final"
  /\ phase = "calling"
  /\ \E i \in 1..Len(log) : log[i] = LogEntry("return", "compile_check")
  /\ {"top_name", "base_summary"} \subseteq DOMAIN state

HeaderLinesOf(region) ==
  { i \in 1..Len(SplitLines(region)) : HeaderMatches(Strip(SplitLines(region)[i])) }

(* The filename the first header line of a region declares: the text after *)
(* the header prefix, cut at the first parenthesis, trimmed.               *)
DeclaredName(region) ==
  LET hs == HeaderLinesOf(region)
      line == Strip(SplitLines(region)[CHOOSE i \in hs : \A j \in hs : i <= j])
      rest == Strip(Tail(line))
      cut == IF \E i \in 1..Len(rest) : rest[i] = "P"
             THEN SubSeq(rest, 1, (CHOOSE i \in 1..Len(rest) :
                                     rest[i] = "P" /\ \A j \in 1..(i - 1) : rest[j] # "P") - 1)
             ELSE rest
  IN Strip(cut)

BlockNames(blocks) == { blocks[i].name : i \in 1..Len(blocks) }

(* C29 as stated: a region contributes an entry if and only if it has a    *)
(* header line, and the entry's filename is the one its first header line  *)
(* declares, cut at the first parenthesis.                                 *)
C29_Original ==
  \A k \in 1..Len(calls) :
    calls[k].tool = "parse_file_blocks" =>
      LET regions == FenceBlocks(calls[k].text)
          headed == { i \in 1..Len(regions) : HeaderLinesOf(regions[i]) # {} }
      IN /\ \A i \in headed : DeclaredName(regions[i]) \in BlockNames(calls[k].blocks)
         /\ \A n \in BlockNames(calls[k].blocks) :
              \E i \in headed : DeclaredName(regions[i]) = n

(* C29, amended: a region contributes an entry if and only if it has a     *)
(* header line and the filename its first header line declares, cut at the *)
(* first parenthesis and trimmed, is not empty; that filename is the       *)
(* entry's.  Later header lines of the region play no part.                *)
C29_FirstHeaderNames ==
  \A k \in 1..Len(calls) :
    calls[k].tool = "parse_file_blocks" =>
      LET regions == FenceBlocks(calls[k].text)
          headed == { i \in 1..Len(regions) : HeaderLinesOf(regions[i]) # {} }
      IN /\ \A i \in headed :
              DeclaredName(regions[i]) # <<>> =>
                DeclaredName(regions[i]) \in BlockNames(calls[k].blocks)
         /\ \A n \in BlockNames(calls[k].blocks) :
              /\ n # <<>>
              /\ \A j \in 1..Len(n) : n[j] # "P"
              /\ \E i \in headed : DeclaredName(regions[i]) = n

C29_Witness ==
  /\ Len(calls) = 1
  /\ calls[1].tool = "parse_file_blocks"
  /\ LET regions == FenceBlocks(calls[1].text)
     IN /\ Len(regions) = 3
        /\ Cardinality(HeaderLinesOf(regions[1])) = 2
        /\ \E j \in 1..Len(regions[2]) : regions[2][j] = "P"
        /\ HeaderLinesOf(regions[2]) # {}
        /\ DeclaredName(regions[2]) # <<>>
        /\ HeaderLinesOf(regions[3]) = {}
        /\ BlockNames(calls[1].blocks) = {DeclaredName(regions[1]), DeclaredName(regions[2])}

(* C30: every content of the mapping is the text of a fenced region that   *)
(* declares the entry's filename, header line included, with no whitespace *)
(* at its start and exactly one newline, preceded by no whitespace, at its *)
(* end.                                                                    *)
C30_ContentTrimmedOneNewline ==
  \A k \in 1..Len(calls) :
    calls[k].tool = "parse_file_blocks" =>
      \A i \in 1..Len(calls[k].blocks) :
        LET code == calls[k].blocks[i].code
            regions == FenceBlocks(calls[k].text)
        IN /\ Len(code) >= 2
           /\ code[Len(code)] = "N"
           /\ ~IsWs(code[Len(code) - 1])
           /\ ~IsWs(code[1])
           /\ \E j \in 1..Len(SplitLines(code)) : HeaderMatches(Strip(SplitLines(code)[j]))
           /\ \E r \in 1..Len(regions) :
                /\ HeaderLinesOf(regions[r]) # {}
                /\ DeclaredName(regions[r]) = calls[k].blocks[i].name
                /\ \E a \in 0..Len(regions[r]) :
                     /\ a + Len(code) - 1 <= Len(regions[r])
                     /\ SubSeq(regions[r], a + 1, a + Len(code) - 1)
                          = SubSeq(code, 1, Len(code) - 1)
                     /\ \A b \in (1..a) \cup ((a + Len(code))..Len(regions[r])) :
                          IsWs(regions[r][b])

C30_Witness ==
  /\ Len(calls) = 1
  /\ calls[1].tool = "parse_file_blocks"
  /\ Len(calls[1].blocks) = 2
  /\ LET regions == FenceBlocks(calls[1].text)
     IN /\ Len(regions) = 2
        /\ IsWs(regions[1][Len(regions[1])])
        /\ IsWs(regions[1][Len(regions[1]) - 1])
        /\ Len(calls[1].blocks[1].code) < Len(regions[1])
        /\ Len(SplitLines(calls[1].blocks[2].code)) >= 2

RECURSIVE TextOfTextParts(_)
TextOfTextParts(parts) ==
  IF parts = <<>> THEN <<>>
  ELSE (IF Head(parts).type \in {"text", "output_text"} THEN Head(parts).text ELSE <<>>)
         \o TextOfTextParts(Tail(parts))

(* C31 as stated: a string payload is returned unchanged; a list payload   *)
(* gives the texts of its text and output-text parts, in order, and        *)
(* nothing else, also when it has no such part; any other payload gives    *)
(* its string form.                                                        *)
C31_Original ==
  \A k \in 1..Len(calls) :
    calls[k].tool = "extract_text" =>
      LET content == calls[k].content
      IN IF content.shape = "str" THEN calls[k].text = content.str
         ELSE IF content.shape = "list"
         THEN calls[k].text = TextOfTextParts(content.parts)
         ELSE calls[k].text = StrOf(content)

(* It holds of every list payload that has a non-empty text part.          *)
C31_WithTextPartHolds ==
  \A k \in 1..Len(calls) :
    calls[k].tool = "extract_text" =>
      LET content == calls[k].content
      IN IF content.shape = "str" THEN calls[k].text = content.str
         ELSE IF content.shape = "list"
         THEN TextOfTextParts(content.parts) # <<>> =>
                calls[k].text = TextOfTextParts(content.parts)
         ELSE calls[k].text = StrOf(content)

CopyCalls == { k \in 1..Len(calls) : calls[k].tool = "hdl_writer" }

Readable(paths) == SelectSeq(paths, LAMBDA p : ReadOutcome(p) = "none")

(* What all_paths must be when every copy failure is skipped: the          *)
(* originals that can be read, in order, as files of the run directory,    *)
(* then the written files that are none of them.                           *)
ExpectedAllPaths(c) ==
  LET copied == [i \in 1..Len(Readable(c.original_paths)) |->
                   [dir |-> c.run_dir, name |-> Readable(c.original_paths)[i].name]]
      written == [i \in 1..Len(c.changed_files) |->
                    [dir |-> c.run_dir, name |-> c.changed_files[i]]]
  IN copied \o SelectSeq(written, LAMBDA w : ~InSeq(w, copied))

(* C32 as stated: an original that cannot be read, or whose content cannot *)
(* be decoded, is skipped; the invocation does not abort, the extracted    *)
(* files are written and all_paths is the originals that did copy plus the *)
(* written files.                                                          *)
C32_Original ==
  \A k \in CopyCalls :
    /\ ~calls[k].raised
    /\ calls[k].changed_files # <<>>
    /\ \A i \in 1..Len(calls[k].changed_files) : calls[k].changed_files[i] \in DOMAIN rundir
    /\ calls[k].all_paths = ExpectedAllPaths(calls[k])

(* It holds when no original fails to decode: a missing original is        *)
(* skipped.                                                                *)
C32_MissingSkippedHolds ==
  \A k \in CopyCalls :
    (\A i \in 1..Len(calls[k].original_paths) :
       calls[k].original_paths[i] \notin UndecodablePaths) =>
      /\ ~calls[k].raised
      /\ calls[k].changed_files # <<>>
      /\ \A i \in 1..Len(calls[k].changed_files) : calls[k].changed_files[i] \in DOMAIN rundir
      /\ calls[k].all_paths = ExpectedAllPaths(calls[k])

MarkerLines(bundle) ==
  SelectSeq(SplitLines(bundle), LAMBDA l : l # <<>> /\ Head(l) = "H")

(* C33: for a non-empty hdl_paths, resource_init returns and its           *)
(* hdl_bundle starts with a marker line, separates its sections by a blank *)
(* line, and has one marker line per path, in order, naming the path's     *)
(* file; the marker line of a file that cannot be read notes the failure   *)
(* and is the whole section, that of a readable file is followed by the    *)
(* file's text.                                                            *)
C33_BundleSections ==
  \A k \in InitCalls :
    calls[k].impl = "interface" =>
      /\ calls[k].raised = "none"
      /\ LET paths == calls[k].st.hdl_paths
             bundle == calls[k].update[1].hdl_bundle
             lines == SplitLines(bundle)
             markers == MarkerLines(bundle)
         IN /\ bundle # <<>>
            /\ Head(bundle) = "H"
            /\ Len(markers) = Len(paths)
            /\ \A i \in 1..Len(paths) :
                 /\ SubSeq(markers[i], 1, 2 + Len(paths[i].name)) = <<"H", "S">> \o paths[i].name
                 /\ InSeq("FAILED TO READ", markers[i]) <=> ReadOutcome(paths[i]) # "none"
            /\ \A j \in 1..Len(lines) :
                 (lines[j] # <<>> /\ Head(lines[j]) = "H") =>
                   /\ j > 1 => lines[j - 1] = <<>>
                   /\ InSeq("FAILED TO READ", lines[j]) =>
                        (j = Len(lines) \/ lines[j + 1] = <<>>)
                   /\ ~InSeq("FAILED TO READ", lines[j]) =>
                        (j < Len(lines) /\ lines[j + 1] = <<"o">> \o SubSeq(lines[j], 3, Len(lines[j])))

C33_Witness ==
  \E k \in InitCalls :
    /\ calls[k].impl = "interface"
    /\ Len(calls[k].st.hdl_paths) = 2
    /\ ReadOutcome(calls[k].st.hdl_paths[1]) = "UnicodeDecodeError"
    /\ ReadOutcome(calls[k].st.hdl_paths[2]) = "none"
    /\ calls[k].raised = "none"
    /\ Len(MarkerLines(calls[k].update[1].hdl_bundle)) = 2

StepOrder == <<"validate", "project_dir", "script", "batch", "sleep", "locate", "parse">>

StepIndex(steps, s) ==
  IF InSeq(s, steps) THEN CHOOSE i \in 1..Len(steps) : steps[i] = s ELSE 0

(* C34: in every call of the real collaborator the steps entered are an    *)
(* initial part of: input validation, project directory, script, batch     *)
(* run, wait, report lookup, report parsing; the wait is entered only      *)
(* after a batch run with exit code 0, the report is looked up and read    *)
(* only after the wait, and a call with files, exit code 0 and a report    *)
(* file enters all the steps.                                              *)
C34_StepOrder ==
  \A k \in 1..Len(calls) :
    calls[k].tool = "run_for_files" =>
      LET steps == calls[k].steps
      IN /\ Len(steps) <= Len(StepOrder)
         /\ steps = SubSeq(StepOrder, 1, Len(steps))
         /\ InSeq("sleep", steps) <=> calls[k].slept
         /\ calls[k].slept =>
              calls[k].process /\ calls[k].env.returncode = 0 /\ calls[k].tcl
         /\ InSeq("locate", steps) =>
              calls[k].slept /\ StepIndex(steps, "sleep") < StepIndex(steps, "locate")
         /\ calls[k].read =>
              calls[k].slept /\ StepIndex(steps, "sleep") < StepIndex(steps, "parse")
         /\ (calls[k].files # <<>> /\ calls[k].env.settings_exists
               /\ calls[k].env.returncode = 0 /\ calls[k].env.report # <<>>)
              => steps = StepOrder /\ calls[k].read

C34_Witness ==
  \E k \in 1..Len(calls) :
    /\ calls[k].tool = "run_for_files"
    /\ calls[k].env.returncode = 0
    /\ calls[k].steps = StepOrder
    /\ calls[k].slept
    /\ calls[k].read

DownstreamStages == {"compile_check", "resource_final"}

(* C35: whenever the pipeline is at compile_check or resource_final, the   *)
(* state has the key optimized_hdl_paths with a non-empty list, the paths  *)
(* selected for the stage are that list, and the stage raises only out of  *)
(* its collaborator's call, never for want of paths.                       *)
C35_OptimizedPathsPresent ==
  /\ node \in DownstreamStages =>
       /\ "optimized_hdl_paths" \in DOMAIN state
       /\ state.optimized_hdl_paths # <<>>
       /\ SelectPathsForDownstream(state) = state.optimized_hdl_paths
  /\ \A i \in 1..Len(log) :
       (log[i].ev = "raise" /\ log[i].node \in DownstreamStages) =>
         (i > 1 /\ log[i - 1] = LogEntry("call", log[i].node))
  /\ \A k \in 1..Len(calls) :
       (calls[k].tool \in {"compile_runner", "resource_runner"}
          /\ calls[k].node \in DownstreamStages) =>
         (calls[k].files # <<>> /\ calls[k].files = state.optimized_hdl_paths)

C35_Witness ==
  /\ pc = "done"
  /\ \E k \in 1..Len(calls) : calls[k].node = "compile_check" /\ calls[k].files # <<>>
  /\ \E k \in 1..Len(calls) :
       /\ calls[k].node = "resource_final"
       /\ calls[k].files = state.optimized_hdl_paths
       /\ calls[k].files # state.hdl_paths

NoOptimizedFilesText == <<"[HDL Files]", "No explicit optimized files detected">>

AtApply(p) == node = "apply_optimized_hdl" /\ phase = p

(* C36: no event carries the "No explicit optimized files detected" text;  *)
(* once apply_optimized_hdl has returned, optimized_files is in the state  *)
(* and is not empty; the stage returns when the response holds a file      *)
(* block and raises when it holds none.                                    *)
C36_NoFallbackMessage ==
  /\ \A i \in 1..Len(out) : out[i].text # NoOptimizedFilesText
  /\ (\E i \in 1..Len(log) : log[i] = LogEntry("return", "apply_optimized_hdl")) =>
       ("optimized_files" \in DOMAIN state /\ state.optimized_files # <<>>)
  /\ AtApply("returned") =>
       (/\ ParseFileBlocks(ExtractText(state.agent_response.content)) # <<>>
        /\ output.optimized_files # <<>>
        /\ NodeEndMessages(node, output)[1].text # NoOptimizedFilesText)
  /\ AtApply("raised") =>
       (/\ ParseFileBlocks(ExtractText(state.agent_response.content)) = <<>>
        /\ "optimized_files" \notin DOMAIN state)

C36_Witness ==
  /\ \E i \in 1..Len(log) : log[i] = LogEntry("end", "apply_optimized_hdl")
  /\ state.optimized_files # <<>>
  /\ \E i \in 1..Len(out) :
       /\ out[i].node = "apply_optimized_hdl"
       /\ out[i].src = "end"
       /\ SubSeq(out[i].text, 1, 2) = <<"[HDL Files]", "Wrote optimized HDL for">>

CompileFailed == "compile_ok" \in DOMAIN state /\ ~state.compile_ok

ResourceFinalRaised ==
  /\ pc = "error"
  /\ Len(log) > 1
  /\ log[Len(log)] = LogEntry("raise", "resource_final")
  /\ log[Len(log) - 1] = LogEntry("call", "resource_final")

C37_NoGate ==
  /\ \A i \in 1..Len(log) : log[i] # LogEntry("raise", "compile_check")
  /\ \A i \in 1..Len(log) :
       log[i] = LogEntry("end", "compile_check") =>
         IF i < Len(log) THEN log[i + 1] = LogEntry("start", "resource_final")
         ELSE pc = "graph" /\ node = "resource_final" /\ phase = "pending"
  /\ pc = "error" => ResourceFinalRaised
  /\ pc = "done" =>
       /\ "compile_ok" \in DOMAIN state
       /\ "summary_text" \in DOMAIN state
       /\ state.summary_text # <<>>
       /\ \E i \in 1..Len(log) : log[i] = LogEntry("return", "resource_final")
       /\ out[Len(out)].text = state.summary_text

(* C37: compile_check never raises on its result; its end is followed by   *)
(* the start of resource_final whether compile_ok is true or false; a run  *)
(* in which the compile check has returned ends, and it ends done with a   *)
(* summary_text in the state unless the resource collaborator raises.      *)
C37_NotGatedOnCompile ==
  /\ []C37_NoGate
  /\ \A ok \in BOOLEAN :
       ("compile_ok" \in DOMAIN state /\ state.compile_ok = ok)
         ~> (pc = "done" \/ ResourceFinalRaised)

C37_Witness ==
  /\ pc = "done"
  /\ CompileFailed
  /\ state.compile_errors # <<>>
  /\ state.summary_text # <<>>
  /\ \E i \in 1..Len(out) : out[i].text[2] = "Compilation errors detected"

NamedCalls == { k \in 1..Len(calls) : calls[k].tool = "hdl_writer" /\ ~calls[k].raised }

NoPathTwice(paths) == \A i, j \in 1..Len(paths) : paths[i] = paths[j] => i = j

BaseNames(paths) == { paths[i].name : i \in 1..Len(paths) }

(* C38 as stated: in every result of the writer all_paths holds no path    *)
(* twice, whatever the original paths and the extracted file names.        *)
C38_Original ==
  \A k \in NamedCalls : NoPathTwice(calls[k].all_paths)

(* C38, the part that holds: when the original paths have pairwise         *)
(* different base names, all_paths holds no path twice, and it holds the   *)
(* destination of every original and of every extracted file name.         *)
C38_DistinctNamesHold ==
  \A k \in NamedCalls :
    Cardinality(BaseNames(calls[k].original_paths)) = Len(calls[k].original_paths) =>
      /\ NoPathTwice(calls[k].all_paths)
      /\ \A i \in 1..Len(calls[k].original_paths) :
           InSeq([dir |-> calls[k].run_dir, name |-> calls[k].original_paths[i].name],
                 calls[k].all_paths)
      /\ \A i \in 1..Len(calls[k].changed_files) :
           InSeq(DestPath(calls[k].run_dir, calls[k].changed_files[i]), calls[k].all_paths)

HasSeparator(name) == InSeq("/", name)

(* C39 as stated: every file written by an invocation is a child of the    *)
(* run directory of that invocation, whatever the extracted file names.    *)
C39_Original ==
  \A k \in 1..Len(calls) :
    calls[k].tool = "hdl_writer" =>
      \A i \in 1..Len(writes) : writes[i].dir = calls[k].run_dir

(* C39, the part that holds: the copies of the originals are written into  *)
(* the run directory, and so is every extracted file whose name holds no   *)
(* path separator.                                                         *)
C39_PlainNamesHold ==
  \A k \in 1..Len(calls) :
    calls[k].tool = "hdl_writer" =>
      \A i \in 1..Len(writes) :
        (writes[i].from = "copy"
           \/ \A b \in 1..Len(ParseFileBlocks(calls[k].text)) :
                ~HasSeparator(ParseFileBlocks(calls[k].text)[b].name))
          => (writes[i].dir = calls[k].run_dir /\ writes[i].name \in DOMAIN rundir)

SummaryEvents ==
  { i \in 1..Len(out) : out[i].kind = "text" /\ out[i].text = state.summary_text }

ApplyStartAt ==
  CHOOSE j \in 1..Len(out) : out[j].src = "start" /\ out[j].node = "apply_optimized_hdl"

(* C40: in a full-pipeline stream that has completed, exactly one event is *)
(* the "text" event of summary_text and it is the last event; every other  *)
(* "text" event is a model answer token of the agent stage and precedes    *)
(* the start announcement of apply_optimized_hdl.                          *)
C40_SummaryLast ==
  (FullFlow /\ pc = "done") =>
    /\ Cardinality(SummaryEvents) = 1
    /\ SummaryEvents = {Len(out)}
    /\ out[Len(out)].node = "resource_final"
    /\ \E j \in 1..Len(out) : out[j].src = "start" /\ out[j].node = "apply_optimized_hdl"
    /\ \A i \in 1..(Len(out) - 1) :
         out[i].kind = "text" => (out[i].node = "agent" /\ i < ApplyStartAt)

C40_Witness ==
  /\ FullFlow
  /\ pc = "done"
  /\ Cardinality({ i \in 1..Len(out) : out[i].kind = "text" /\ out[i].node = "agent" }) >= 2
  /\ out[Len(out)].kind = "text"
  /\ out[Len(out)].text = state.summary_text
  /\ out[Len(out) - 1].kind = "think"

====
